---- MODULE Spec2Model ----
(***************************************************************************)
(* Execution engine of agentflow: Orchestrator.run, StepExecutor,          *)
(* execute_with_retry, the execution service (cancel_execution,            *)
(* approve_step) and the Celery task execute_agent.                        *)
(*                                                                         *)
(* Persistence is modelled at the level of the objects the code writes:    *)
(* a flush makes the write visible (one shared store, no transaction       *)
(* isolation).  Strings that are searched by substring are sequences of    *)
(* tokens.                                                                 *)
(***************************************************************************)
EXTENDS Integers, Sequences, FiniteSets, TLC

VARIABLES
    nodes,          \* list[AgentNode] of the version, in the order the query returns them
    edges,          \* list[AgentEdge] of the version: records [source, target, label]
    node_type,      \* node id -> AgentNode.node_type
    node_label,     \* node id -> AgentNode.label (NoLabel when empty)
    sorted_nodes,   \* result of _topological_sort: [ok, order]
    execution,      \* the Execution row: [status, error_message, max_retries]
    steps,          \* the ExecutionStep rows of the execution, in creation order
    step_logs,      \* the ExecutionLog rows: [step, level]
    events,         \* the events handed to _emit_event / redis.publish, in order
    pc,             \* position of the worker task and of Orchestrator.run
    idx,            \* position of the run loop in sorted_nodes (step_order = idx - 1)
    context,        \* the run's context dict
    skipped_nodes,  \* the run's set of skipped node ids
    retry_policy,   \* the run's RetryPolicy: [max_retries, retryable_errors]
    attempt,        \* loop variable of execute_with_retry
    handler_calls,  \* handler.execute invocations made by the current execute_node
    retry_log,      \* the "Retry attempt" warnings of the current execute_with_retry
    pending,        \* the handler result or exception travelling up the call stack
    result,         \* what Orchestrator.run returned or raised to its caller
    retries,        \* self.request.retries of the Celery task
    run_base,       \* number of step rows that existed when the current run started
    faults,         \* exception classes the environment makes action handlers raise
    node_model,     \* node id -> prefix of config["model"] (the part before the first "-")
    router,         \* ProviderRouter.fallback_order of the run (the keys of providers)
    redis_down,     \* whether the environment may make get_redis / publish raise
    chat_call,           \* the ProviderRouter.chat_call call of the latest handler attempt
    published,      \* the events redis.publish delivered, in order
    cost_tracker,   \* the run's CostTracker: [steps, total_tokens, total_cost]
    add_step_calls, \* the add_step calls made on cost_tracker: [model, tokens_used, cost]
    agent_settings, \* Agent.settings: [max_retries, concurrency_limit], each the set of
                    \* values stored under the key (empty: the key is absent)
    executions,     \* the Execution rows of the agent: [status, triggered_by]
    requests,       \* the trigger_execution requests between their count and their insert
    resolve_in,     \* arguments of a resolve_value call: [value, context]
    resolve_out     \* what that call returned

graphVars == <<nodes, edges, node_type, node_label>>
configVars == <<node_model, router, redis_down>>
resolverVars == <<resolve_in, resolve_out>>
agentVars == <<agent_settings, executions, requests>>

(***************************************************************************)
(* Bounds of the model.                                                    *)
(***************************************************************************)
MaxNodes == 3
MaxSortEdges == 3

NoLabel == "<none>"
NodeIds == 1..MaxNodes

\* ------------------------------------------------------------------------
\* Sequence helpers
\* ------------------------------------------------------------------------
Range(s) == {s[k] : k \in 1..Len(s)}

SeqsUpTo(S, n) == UNION {[1..k -> S] : k \in 0..n}

\* first position of x in s, 0 when x does not occur
IndexOf(s, x) ==
    IF \E k \in 1..Len(s) : s[k] = x
    THEN CHOOSE k \in 1..Len(s) : s[k] = x /\ \A j \in 1..(k - 1) : s[j] # x
    ELSE 0

Count(s, x) == Cardinality({k \in 1..Len(s) : s[k] = x})

\* ------------------------------------------------------------------------
\* _topological_sort (Kahn's algorithm)
\* ------------------------------------------------------------------------

\* in_degree after the two loops over nodes and edges: the number of edges
\* whose target is the node.
InDegree(ns, es) ==
    [n \in Range(ns) \cup {es[k].target : k \in 1..Len(es)} |->
        Cardinality({k \in 1..Len(es) : es[k].target = n})]

RECURSIVE AdjacencyFrom(_, _, _)
AdjacencyFrom(es, n, k) ==
    IF k > Len(es) THEN <<>>
    ELSE IF es[k].source = n THEN <<es[k].target>> \o AdjacencyFrom(es, n, k + 1)
    ELSE AdjacencyFrom(es, n, k + 1)

\* adjacency[n]: the targets of n's outgoing edges, in edge order.
Adjacency(es, n) == AdjacencyFrom(es, n, 1)

\* The neighbour is enqueued one decrement early.
ReadyMutant(degree) == degree = 1

\* The test that enqueues a neighbour once its in-degree has been decremented.
Ready(degree) == degree = 0

\* The inner loop "for neighbor in adjacency[node_id]".
RECURSIVE Relax(_, _, _)
Relax(adj, indeg, queue) ==
    IF adj = <<>> THEN [indeg |-> indeg, queue |-> queue]
    ELSE LET nb == Head(adj)
             d == [indeg EXCEPT ![nb] = @ - 1]
         IN Relax(Tail(adj), d, IF Ready(d[nb]) THEN Append(queue, nb) ELSE queue)

\* The loop "while queue".
RECURSIVE Kahn(_, _, _, _, _)
Kahn(ns, es, queue, indeg, out) ==
    IF queue = <<>> THEN out
    ELSE LET n == Head(queue)
             r == Relax(Adjacency(es, n), indeg, Tail(queue))
         IN Kahn(ns, es, r.queue, r.indeg,
                 IF n \in Range(ns) THEN Append(out, n) ELSE out)

\* The queue is seeded in the iteration order of in_degree, which is the
\* order of nodes (setdefault inserts every node first).
InitialQueue(ns, es) == SelectSeq(ns, LAMBDA n : InDegree(ns, es)[n] = 0)

\* The sort without the length check of line 58.
_topological_sortMutant(ns, es) ==
    [ok |-> TRUE,
     order |-> Kahn(ns, es, InitialQueue(ns, es), InDegree(ns, es), <<>>)]

\* [ok |-> FALSE] stands for the ValueError "Agent graph contains a cycle".
_topological_sort(ns, es) ==
    LET out == Kahn(ns, es, InitialQueue(ns, es), InDegree(ns, es), <<>>)
    IN IF Len(out) # Len(ns) THEN [ok |-> FALSE, order |-> <<>>]
       ELSE [ok |-> TRUE, order |-> out]

\* ------------------------------------------------------------------------
\* Graph predicates used by the properties
\* ------------------------------------------------------------------------
EdgePairs(es) == {<<es[k].source, es[k].target>> : k \in 1..Len(es)}

RECURSIVE ReachFrom(_, _, _)
ReachFrom(S, pairs, fuel) ==
    IF fuel = 0 THEN S
    ELSE ReachFrom(S \cup {p[2] : p \in {q \in pairs : q[1] \in S}}, pairs, fuel - 1)

\* A node lies on a cycle iff it can reach itself over at least one edge.
HasCycle(ns, es) ==
    \E n \in Range(ns) :
        n \in ReachFrom({p[2] : p \in {q \in EdgePairs(es) : q[1] = n}},
                        EdgePairs(es), Len(ns))

WellFormed(ns, es) ==
    \A k \in 1..Len(es) : es[k].source \in Range(ns) /\ es[k].target \in Range(ns)

\* ------------------------------------------------------------------------
\* Exception classes and _is_retryable
\* ------------------------------------------------------------------------
ApprovalRequired == "HumanApprovalRequiredError"

\* type(exc).__mro__ of the exception classes that occur: builtins, the
\* httpx exceptions the action handlers let through, the approval signal.
Mro(cls) ==
    CASE cls = "TimeoutError" ->
            <<"TimeoutError", "OSError", "Exception", "BaseException", "object">>
      [] cls = "ConnectionRefusedError" ->
            <<"ConnectionRefusedError", "ConnectionError", "OSError", "Exception",
              "BaseException", "object">>
      [] cls = "httpx.ReadTimeout" ->
            <<"httpx.ReadTimeout", "httpx.TimeoutException", "httpx.TransportError",
              "httpx.RequestError", "httpx.HTTPError", "Exception", "BaseException",
              "object">>
      [] cls = "ValueError" -> <<"ValueError", "Exception", "BaseException", "object">>
      [] cls = "RuntimeError" -> <<"RuntimeError", "Exception", "BaseException", "object">>
      [] cls = ApprovalRequired -> <<ApprovalRequired, "Exception", "BaseException", "object">>

\* The module-qualified name a class shows in str(cls), as tokens; builtins
\* show no module.
Qualified(cls) ==
    CASE cls = "httpx.ReadTimeout" -> <<"httpx", ".", "ReadTimeout">>
      [] cls = "httpx.TimeoutException" -> <<"httpx", ".", "TimeoutException">>
      [] cls = "httpx.TransportError" -> <<"httpx", ".", "TransportError">>
      [] cls = "httpx.RequestError" -> <<"httpx", ".", "RequestError">>
      [] cls = "httpx.HTTPError" -> <<"httpx", ".", "HTTPError">>
      [] cls = ApprovalRequired ->
            <<"engine", ".", "handlers", ".", "human_handler", ".", ApprovalRequired>>
      [] OTHER -> <<cls>>

\* cls.__name__: the last component of the qualified name.
ClassName(cls) == <<Qualified(cls)[Len(Qualified(cls))]>>

\* str(exc): the message of the exception (one message per class).
StrExc(cls) == cls

\* ValueError("Agent graph contains a cycle ...") of _topological_sort
CycleError == "ValueError: graph contains a cycle"

ExceptionClasses ==
    {"TimeoutError", "ConnectionRefusedError", "httpx.ReadTimeout", "ValueError",
     "RuntimeError", ApprovalRequired}

\* RetryPolicy.retryable_errors, as token sequences.
DefaultRetryableErrors ==
    { <<"TimeoutError">>, <<"ConnectionError">>,
      <<"httpx", ".", "TimeoutException">>, <<"httpx", ".", "ConnectError">> }

DefaultMaxRetries == 3
BackoffBase == 2
BackoffMax == 60

\* needle in haystack, for token sequences
Contains(haystack, needle) ==
    \E off \in 0..(Len(haystack) - Len(needle)) :
        \A k \in 1..Len(needle) : haystack[off + k] = needle[k]

RECURSIVE JoinClasses(_, _)
JoinClasses(mro, k) ==
    IF k > Len(mro) THEN <<>>
    ELSE (IF k > 1 THEN <<", ">> ELSE <<>>)
         \o <<"<class '">> \o Qualified(mro[k]) \o <<"'>">> \o JoinClasses(mro, k + 1)

\* str(type(exc).__mro__)
StrMro(cls) == <<"(">> \o JoinClasses(Mro(cls), 1) \o <<")">>

\* Only the second loop: the exact name of the class or of an ancestor.
_is_retryableMutant(cls, policy) ==
    \E k \in 1..Len(Mro(cls)) : ClassName(Mro(cls)[k]) \in policy.retryable_errors
\* The first loop compares __name__ and searches str(type(exc).__mro__); the
\* second compares the __name__ of every class of the MRO.
_is_retryable(cls, policy) ==
    \/ \E r \in policy.retryable_errors :
          ClassName(cls) = r \/ Contains(StrMro(cls), r)
    \/ \E k \in 1..Len(Mro(cls)) : ClassName(Mro(cls)[k]) \in policy.retryable_errors

Min(a, b) == IF a < b THEN a ELSE b

\* wait = min(policy.backoff_base**attempt, policy.backoff_max)
Backoff(att) == Min(BackoffBase ^ att, BackoffMax)

\* ------------------------------------------------------------------------
\* Handlers
\* ------------------------------------------------------------------------
NodeTypes == {"trigger", "ai", "action", "logic", "human"}
Branches == {"true", "false"}
NoBranch == "<no branch>"
NoData == [node |-> 0, branch |-> NoBranch]

\* ------------------------------------------------------------------------
\* ProviderRouter
\* ------------------------------------------------------------------------

\* The providers in the order _build_provider_router registers them.
ProviderNames == <<"openai", "anthropic", "google", "ollama">>
MaxProviders == 3

\* fallback_order as _build_provider_router can build it: the configured
\* providers, a non-empty choice among the first MaxProviders names, in
\* registration order.
RouterConfigs ==
    LET names == SubSeq(ProviderNames, 1, Min(MaxProviders, Len(ProviderNames)))
    IN {SelectSeq(names, LAMBDA x : x \in S) : S \in (SUBSET Range(names)) \ {{}}}

\* model.split("-")[0] of the models a node can name
ModelPrefixes == {"gpt", "claude", "llama"}

\* DEFAULT_PROVIDER_MAP.get(prefix)
ProviderMap(prefix) ==
    CASE prefix \in {"gpt", "o1", "o3"} -> "openai"
      [] prefix = "claude" -> "anthropic"
      [] prefix = "gemini" -> "google"
      [] OTHER -> ""

\* resolve_provider; fallback_order is never empty here.
resolve_provider(order, prefix) ==
    IF ProviderMap(prefix) # "" /\ ProviderMap(prefix) \in Range(order)
    THEN ProviderMap(prefix)
    ELSE order[1]

ProviderCall(name, outcome) == [provider |-> name, outcome |-> outcome]
NoChat == [calls |-> <<>>, ok |-> FALSE, provider |-> "", exc |-> ""]
AllProvidersFailed == "RuntimeError"

\* The loop "for fallback_name in self.fallback_order" from position k on.
RECURSIVE Fallbacks(_, _, _, _, _)
Fallbacks(order, k, primary, outcome, calls) ==
    IF k > Len(order)
    THEN [calls |-> calls, ok |-> FALSE, provider |-> "", exc |-> AllProvidersFailed]
    ELSE IF order[k] = primary THEN Fallbacks(order, k + 1, primary, outcome, calls)
    ELSE IF outcome[order[k]] = "ok"
         THEN [calls |-> Append(calls, ProviderCall(order[k], "ok")), ok |-> TRUE,
               provider |-> order[k], exc |-> ""]
         ELSE Fallbacks(order, k + 1, primary, outcome,
                        Append(calls, ProviderCall(order[k], outcome[order[k]])))

\* The fallback loop ended after the first fallback that failed.
chatMutant(order, prefix, outcome) ==
    LET primary == resolve_provider(order, prefix)
    IN IF outcome[primary] = "ok"
       THEN [calls |-> <<ProviderCall(primary, "ok")>>, ok |-> TRUE,
             provider |-> primary, exc |-> ""]
       ELSE Fallbacks(SubSeq(order, 1, Min(2, Len(order))), 1, primary, outcome,
                      <<ProviderCall(primary, outcome[primary])>>)

\* ProviderRouter.chat; outcome: provider name -> "ok" or the class of the
\* exception its chat raises.  The result records the provider calls made.
chat(order, prefix, outcome) ==
    LET primary == resolve_provider(order, prefix)
    IN IF outcome[primary] = "ok"
       THEN [calls |-> <<ProviderCall(primary, "ok")>>, ok |-> TRUE,
             provider |-> primary, exc |-> ""]
       ELSE Fallbacks(order, 1, primary, outcome,
                      <<ProviderCall(primary, outcome[primary])>>)

\* What a provider's chat can raise: an HTTP timeout or an error of another
\* kind.
ProviderFaults == {"httpx.ReadTimeout", "ValueError"}

\* Token usage and cost (in units of 10^-8) of an LLM response: 10 input
\* tokens and 1 output token of gemini-2.0-flash, 1000 input tokens of
\* gpt-4o.
Usages == {[tokens_used |-> 11, cost |-> 140], [tokens_used |-> 1000, cost |-> 250000]}

Returned(n, b, tokens, cost, call) ==
    [ok |-> TRUE, data |-> [node |-> n, branch |-> b], exc |-> "",
     tokens_used |-> tokens, cost |-> cost, chat |-> call]
Raised(e, call) ==
    [ok |-> FALSE, data |-> NoData, exc |-> e, tokens_used |-> 0, cost |-> 0, chat |-> call]

\* AINodeHandler.execute: the router's response turned into a NodeOutput, or
\* the router's exception passed on.
AiOutcomes(n, flt) ==
    LET calls == {chat(router, node_model[n], out) :
                     out \in [Range(router) -> {"ok"} \cup (flt \cap ProviderFaults)]}
    IN {Returned(n, NoBranch, u.tokens_used, u.cost, c) : u \in Usages, c \in {d \in calls : d.ok}}
       \cup {Raised(c.exc, c) : c \in {d \in calls : ~d.ok}}

\* What one call of handler.execute can do, by node type: return a
\* NodeOutput whose data is tagged with the node that produced it, or raise.
\*   trigger: returns; ai: what the router returned or raised; action:
\*   returns or raises what the HTTP client raised (or ValueError for an
\*   unknown action type); logic: returns a branch (none for a loop) or
\*   raises ValueError; human: always raises.
HandlerOutcomes(n, ntype, flt) ==
    CASE ntype = "trigger" -> {Returned(n, NoBranch, 0, 0, NoChat)}
      [] ntype = "ai" -> AiOutcomes(n, flt)
      [] ntype = "action" ->
            {Returned(n, NoBranch, 0, 0, NoChat)}
            \cup {Raised(e, NoChat) : e \in flt \ {"RuntimeError"}}
      [] ntype = "logic" ->
            {Returned(n, b, 0, 0, NoChat) : b \in Branches \cup {NoBranch}}
            \cup {Raised(e, NoChat) : e \in flt \cap {"ValueError"}}
      [] ntype = "human" -> {Raised(ApprovalRequired, NoChat)}

\* ------------------------------------------------------------------------
\* The run context
\* ------------------------------------------------------------------------
Labels == {"A"}
ReservedKeys == {"trigger", "execution_id", "integrations", "current_step_id"}
IdKey(n) == ToString(n)
ContextKeys == ReservedKeys \cup Labels \cup {IdKey(n) : n \in NodeIds}

Absent == [kind |-> "absent", output |-> NoData]
StrValue == [kind |-> "str", output |-> NoData]
DictValue == [kind |-> "dict", output |-> NoData]
NodeEntry(data) == [kind |-> "node", output |-> data]

\* context = {"trigger": {...}, "execution_id": str(...), "integrations": {...}}
InitialContext ==
    [k \in ContextKeys |->
        CASE k = "trigger" -> DictValue
          [] k = "integrations" -> DictValue
          [] k = "execution_id" -> StrValue
          [] OTHER -> Absent]

\* node_key = node.label or str(node.id)
NodeKey(n) == IF node_label[n] # NoLabel THEN node_label[n] ELSE IdKey(n)

\* incoming_edges[n]: the edges into n, in edge order
Incoming(n) == SelectSeq(edges, LAMBDA e : e.target = n)

\* _should_skip_node: "run" when an active edge is found, "skip" when none
\* is, "error" for the AttributeError of .get on a context entry that is a
\* string.
RECURSIVE _should_skip_node(_, _, _)
_should_skip_node(incoming, skipped, ctx) ==
    IF incoming = <<>> THEN "skip"
    ELSE LET edge == Head(incoming)
             src == edge.source
         IN IF src \in skipped THEN _should_skip_node(Tail(incoming), skipped, ctx)
            ELSE IF src \notin Range(nodes) THEN _should_skip_node(Tail(incoming), skipped, ctx)
            ELSE IF node_type[src] = "logic" /\ edge.label # NoLabel
                 THEN LET entry == ctx[NodeKey(src)]
                      IN IF entry.kind = "str" THEN "error"
                         ELSE IF entry.output.branch # NoBranch
                                 /\ edge.label = entry.output.branch
                              THEN "run"
                              ELSE _should_skip_node(Tail(incoming), skipped, ctx)
                 ELSE "run"

\* ------------------------------------------------------------------------
\* State shared by the specifications
\* ------------------------------------------------------------------------
vars == <<nodes, edges, node_type, node_label, sorted_nodes, execution, steps,
          step_logs, events, pc, idx, context, skipped_nodes, retry_policy,
          attempt, handler_calls, retry_log, pending, result, retries, run_base,
          faults, configVars, chat_call, published, cost_tracker, add_step_calls,
          resolverVars, agentVars>>

runLocals == <<sorted_nodes, idx, context, skipped_nodes, retry_policy, attempt,
               pending, run_base, cost_tracker>>

NotSorted == [ok |-> FALSE, order |-> <<"unset">>]
NoPending == [kind |-> "none", data |-> NoData, exc |-> ""]
NoResult == [kind |-> "none", status |-> "", exc |-> ""]

Event(type, n) == [type |-> type, node_id |-> n]

\* The failure of get_redis or publish leaves through the function.
_emit_eventMutant(e, up) ==
    IF up THEN [raised |-> FALSE, delivered |-> <<e>>]
    ELSE [raised |-> TRUE, delivered |-> <<>>]

\* _emit_event of the orchestrator and of the step executor: publish inside
\* try / except Exception, the failure logged and swallowed.  up: whether
\* get_redis and publish succeed for this event.
_emit_event(e, up) ==
    IF up THEN [raised |-> FALSE, delivered |-> <<e>>]
    ELSE [raised |-> FALSE, delivered |-> <<>>]

\* One call of _emit_event: events is what was handed to it, published what
\* was delivered and whether an exception ever left it.
Emit(e) ==
    /\ events' = Append(events, e)
    /\ \E up \in (IF redis_down THEN BOOLEAN ELSE {TRUE}) :
          LET r == _emit_event(e, up)
          IN published' = [log |-> published.log \o r.delivered,
                           raised |-> published.raised \/ r.raised]

\* Costs are counted in units of 10^-8 (round(..., 8) of cost_tracker.py);
\* the Numeric(10, 6) columns keep a multiple of 100 units, rounded half up.
Numeric6(c) == ((c + 50) \div 100) * 100

\* CostTracker()
NewCostTracker == [steps |-> <<>>, total_tokens |-> 0, total_cost |-> 0]

StepCost(model, tokens_used, cost) ==
    [model |-> model, tokens_used |-> tokens_used, cost |-> cost]

\* The running total is kept with 6 decimals.
add_stepMutant(tracker, model, tokens_used, cost) ==
    [steps |-> Append(tracker.steps, StepCost(model, tokens_used, cost)),
     total_tokens |-> tracker.total_tokens + tokens_used,
     total_cost |-> Numeric6(tracker.total_cost + cost)]

\* CostTracker.add_step; round(..., 8) of a sum of 8-decimal values is the
\* sum itself.
add_step(tracker, model, tokens_used, cost) ==
    [steps |-> Append(tracker.steps, StepCost(model, tokens_used, cost)),
     total_tokens |-> tracker.total_tokens + tokens_used,
     total_cost |-> tracker.total_cost + cost]

\* CostTracker.summary: by_model maps each model of the records to its
\* [tokens, cost, steps], accumulated record by record.
RECURSIVE by_model(_, _)
by_model(records, k) ==
    IF k = 0 THEN [m \in {} |-> [tokens |-> 0, cost |-> 0, steps |-> 0]]
    ELSE LET acc == by_model(records, k - 1)
             step == records[k]
             old == IF step.model \in DOMAIN acc THEN acc[step.model]
                    ELSE [tokens |-> 0, cost |-> 0, steps |-> 0]
         IN [m \in DOMAIN acc \cup {step.model} |->
                IF m = step.model
                THEN [tokens |-> old.tokens + step.tokens_used,
                      cost |-> old.cost + step.cost,
                      steps |-> old.steps + 1]
                ELSE acc[m]]

summary(tracker) ==
    [total_tokens |-> tracker.total_tokens,
     total_cost |-> tracker.total_cost,
     step_count |-> Len(tracker.steps),
     by_model |-> by_model(tracker.steps, Len(tracker.steps))]

\* Execution(status="pending") as trigger_execution creates it; metadata_ is
\* the set of values stored under "max_retries" (empty: the key is absent).
NewExecution(meta) ==
    [status |-> "pending", error_message |-> "", metadata_ |-> meta,
     total_tokens |-> 0, total_cost |-> 0, triggered_by |-> "api"]

\* Agent.settings without the keys the engine reads.
NoSettings == [max_retries |-> {}, concurrency_limit |-> {}]

\* A run without ai nodes: the router of a deployment without provider keys
\* (Ollama alone), Redis reachable, no resolve_value call under study.
NoResolve == [kind |-> "none"]
InitConfig ==
    /\ router = <<"ollama">>
    /\ node_model = [n \in Range(nodes) |-> "llama"]
    /\ redis_down = FALSE
    /\ agent_settings = NoSettings
    /\ resolve_in = NoResolve
    /\ resolve_out = NoResolve

\* What is true right after trigger_execution has flushed the row and
\* execute_agent.delay has queued the task.
InitRun ==
    /\ sorted_nodes = NotSorted
    /\ steps = <<>>
    /\ step_logs = <<>>
    /\ events = <<>>
    /\ pc = "queued"
    /\ idx = 1
    /\ context = InitialContext
    /\ skipped_nodes = {}
    /\ retry_policy = [max_retries |-> DefaultMaxRetries,
                       retryable_errors |-> DefaultRetryableErrors]
    /\ attempt = 0
    /\ handler_calls = 0
    /\ retry_log = <<>>
    /\ pending = NoPending
    /\ result = NoResult
    /\ retries = 0
    /\ run_base = 0
    /\ chat_call = NoChat
    /\ published = [log |-> <<>>, raised |-> FALSE]
    /\ cost_tracker = NewCostTracker
    /\ add_step_calls = <<>>
    /\ executions = <<>>
    /\ requests = <<>>

\* ------------------------------------------------------------------------
\* Orchestrator.run
\* ------------------------------------------------------------------------
CurrentNode == sorted_nodes.order[idx]
LastStep == Len(steps)

\* agent_settings.get("max_retries", 3)
MaxRetriesSetting(meta) == IF meta = {} THEN DefaultMaxRetries ELSE CHOOSE m \in meta : TRUE

\* Lines 79-92: load the execution, mark it running, emit execution.started.
RunStart ==
    /\ pc = "queued"
    /\ execution' = [execution EXCEPT !.status = "running"]
    /\ Emit(Event("execution.started", 0))
    /\ pc' = "started"
    /\ result' = NoResult
    /\ UNCHANGED <<graphVars, configVars, agentVars, resolverVars, add_step_calls, runLocals, steps, step_logs,
                   handler_calls, chat_call, retry_log, retries, faults>>

\* Lines 94-150: load the graph, sort it, build the policy and the context.
\* The cycle error is raised outside the try block of the run loop.
RunSort ==
    /\ pc = "started"
    /\ LET sorted == _topological_sort(nodes, edges)
       IN /\ sorted_nodes' = sorted
          /\ IF sorted.ok
             THEN /\ pc' = "loop"
                  /\ result' = result
             ELSE /\ pc' = "raised"
                  /\ result' = [kind |-> "raised", status |-> "", exc |-> CycleError]
    /\ retry_policy' = [max_retries |-> MaxRetriesSetting(execution.metadata_),
                        retryable_errors |-> DefaultRetryableErrors]
    /\ context' = InitialContext
    /\ skipped_nodes' = {}
    /\ idx' = 1
    /\ attempt' = 0
    /\ pending' = NoPending
    /\ run_base' = Len(steps)
    /\ cost_tracker' = NewCostTracker
    /\ add_step_calls' = <<>>
    /\ UNCHANGED <<graphVars, configVars, agentVars, resolverVars, execution, steps, step_logs,
                   events, published, handler_calls, chat_call, retry_log, retries,
                   faults>>

\* The branching decision of lines 156-162 for the node at the loop position.
Decision(n) ==
    IF Incoming(n) = <<>> THEN "run"
    ELSE _should_skip_node(Incoming(n), skipped_nodes, context)

\* The skipped node leaves an output in the context.
LoopSkipMutant ==
    /\ pc = "loop"
    /\ idx <= Len(sorted_nodes.order)
    /\ Decision(CurrentNode) = "skip"
    /\ skipped_nodes' = skipped_nodes \cup {CurrentNode}
    /\ Emit(Event("step.skipped", CurrentNode))
    /\ idx' = idx + 1
    /\ context' = [context EXCEPT ![NodeKey(CurrentNode)] = NodeEntry(NoData)]
    /\ UNCHANGED <<graphVars, configVars, agentVars, resolverVars, add_step_calls, sorted_nodes, execution, steps,
                   step_logs, pc, retry_policy, cost_tracker, attempt,
                   handler_calls, chat_call, retry_log, pending, result, retries,
                   run_base, faults>>

\* Lines 162-174: the node is skipped.
LoopSkip ==
    /\ pc = "loop"
    /\ idx <= Len(sorted_nodes.order)
    /\ Decision(CurrentNode) = "skip"
    /\ skipped_nodes' = skipped_nodes \cup {CurrentNode}
    /\ Emit(Event("step.skipped", CurrentNode))
    /\ idx' = idx + 1
    /\ UNCHANGED <<graphVars, configVars, agentVars, resolverVars, add_step_calls, sorted_nodes, execution, steps,
                   step_logs, pc, context, retry_policy, cost_tracker, attempt,
                   handler_calls, chat_call, retry_log, pending, result, retries,
                   run_base, faults>>

NewStep(n, order) ==
    [node_id |-> n, step_order |-> order, status |-> "running",
     output_data |-> NoData, error_message |-> "", tokens_used |-> 0, cost |-> 0]

\* The next step is started without awaiting the handler in flight.
StartStepMutant ==
    /\ pc \in {"loop", "handler"}
    /\ idx <= Len(sorted_nodes.order)
    /\ Len(steps) < 2
    /\ steps' = Append(steps, NewStep(CurrentNode, idx - 1))
    /\ handler_calls' = 0
    /\ chat_call' = NoChat
    /\ retry_log' = <<>>
    /\ Emit(Event("step.started", CurrentNode))
    /\ context' = [context EXCEPT !["current_step_id"] = StrValue]
    /\ attempt' = 0
    /\ pc' = "handler"
    /\ UNCHANGED <<graphVars, configVars, agentVars, resolverVars, add_step_calls, sorted_nodes, execution,
                   step_logs, idx, skipped_nodes, retry_policy, cost_tracker, pending,
                   result, retries, run_base, faults>>

\* execute_node, lines 118-152: the step row, step.started, the handler,
\* current_step_id, the resolved config.
StartStep ==
    /\ pc = "loop"
    /\ idx <= Len(sorted_nodes.order)
    /\ Decision(CurrentNode) = "run"
    /\ steps' = Append(steps, NewStep(CurrentNode, idx - 1))
    /\ handler_calls' = 0
    /\ chat_call' = NoChat
    /\ retry_log' = <<>>
    /\ Emit(Event("step.started", CurrentNode))
    /\ context' = [context EXCEPT !["current_step_id"] = StrValue]
    /\ attempt' = 0
    /\ pc' = "handler"
    /\ UNCHANGED <<graphVars, configVars, agentVars, resolverVars, add_step_calls, sorted_nodes, execution,
                   step_logs, idx, skipped_nodes, retry_policy, cost_tracker, pending,
                   result, retries, run_base, faults>>

\* Off by one: the last retry is not made.
GivesUpMutant(att, cls, policy) ==
    att + 1 >= policy.max_retries \/ ~_is_retryable(cls, policy)

\* "attempt == policy.max_retries or not _is_retryable(exc, policy)": the
\* exception leaves execute_with_retry.
GivesUp(att, cls, policy) == att = policy.max_retries \/ ~_is_retryable(cls, policy)

\* execute_with_retry: the handler returns; execute_node lines 157-182.
AttemptReturns ==
    /\ pc = "handler"
    /\ \E o \in HandlerOutcomes(CurrentNode, node_type[CurrentNode], faults) :
        /\ o.ok
        /\ chat_call' = o.chat
        /\ cost_tracker' = IF o.tokens_used > 0
                           THEN add_step(cost_tracker, node_model[CurrentNode],
                                         o.tokens_used, o.cost)
                           ELSE cost_tracker
        /\ add_step_calls' = IF o.tokens_used > 0
                             THEN Append(add_step_calls,
                                         StepCost(node_model[CurrentNode],
                                                  o.tokens_used, o.cost))
                             ELSE add_step_calls
        /\ steps' = [steps EXCEPT ![LastStep].status = "completed",
                                  ![LastStep].output_data = o.data,
                                  ![LastStep].tokens_used = o.tokens_used,
                                  ![LastStep].cost = Numeric6(o.cost)]
        /\ pending' = [kind |-> "output", data |-> o.data, exc |-> ""]
    /\ handler_calls' = handler_calls + 1
    /\ Emit(Event("step.completed", CurrentNode))
    /\ pc' = "step_flushed"
    /\ UNCHANGED <<graphVars, configVars, agentVars, resolverVars, sorted_nodes, execution,
                   step_logs, idx, context, skipped_nodes, retry_policy, attempt,
                   retry_log, result, retries, run_base, faults>>

\* execute_with_retry, lines 71-82: the handler raised, the warning is
\* logged, the loop sleeps and goes to the next attempt.
AttemptRetries ==
    /\ pc = "handler"
    /\ \E o \in HandlerOutcomes(CurrentNode, node_type[CurrentNode], faults) :
        /\ ~o.ok
        /\ chat_call' = o.chat
        /\ o.exc # ApprovalRequired
        /\ ~GivesUp(attempt, o.exc, retry_policy)
        /\ retry_log' = Append(retry_log, [attempt |-> attempt + 1, wait |-> Backoff(attempt),
                                               error |-> StrExc(o.exc)])
    /\ handler_calls' = handler_calls + 1
    /\ attempt' = attempt + 1
    /\ UNCHANGED <<graphVars, configVars, agentVars, resolverVars, add_step_calls, sorted_nodes, execution, steps,
                   step_logs, events, published, pc, idx, context, skipped_nodes,
                   retry_policy, cost_tracker, pending, result, retries, run_base,
                   faults>>

\* The approval signal recorded by the clause for other exceptions.
AttemptPausesMutant ==
    /\ pc = "handler"
    /\ \E o \in HandlerOutcomes(CurrentNode, node_type[CurrentNode], faults) :
        /\ ~o.ok
        /\ chat_call' = o.chat
        /\ o.exc = ApprovalRequired
        /\ pending' = [kind |-> "exc", data |-> NoData, exc |-> o.exc]
    /\ handler_calls' = handler_calls + 1
    /\ steps' = [steps EXCEPT ![LastStep].status = "failed"]
    /\ Emit(Event("step.waiting_approval", CurrentNode))
    /\ pc' = "unwind"
    /\ UNCHANGED <<graphVars, configVars, agentVars, resolverVars, add_step_calls, sorted_nodes, execution,
                   step_logs, idx, context, skipped_nodes, retry_policy, cost_tracker,
                   attempt, retry_log, result, retries, run_base, faults>>

\* The approval signal leaves execute_with_retry; execute_node lines 194-207.
AttemptPauses ==
    /\ pc = "handler"
    /\ \E o \in HandlerOutcomes(CurrentNode, node_type[CurrentNode], faults) :
        /\ ~o.ok
        /\ chat_call' = o.chat
        /\ o.exc = ApprovalRequired
        /\ pending' = [kind |-> "exc", data |-> NoData, exc |-> o.exc]
    /\ handler_calls' = handler_calls + 1
    /\ steps' = [steps EXCEPT ![LastStep].status = "waiting_approval"]
    /\ Emit(Event("step.waiting_approval", CurrentNode))
    /\ pc' = "unwind"
    /\ UNCHANGED <<graphVars, configVars, agentVars, resolverVars, add_step_calls, sorted_nodes, execution,
                   step_logs, idx, context, skipped_nodes, retry_policy, cost_tracker,
                   attempt, retry_log, result, retries, run_base, faults>>

\* Another exception leaves execute_with_retry; execute_node lines 209-224.
AttemptFails ==
    /\ pc = "handler"
    /\ \E o \in HandlerOutcomes(CurrentNode, node_type[CurrentNode], faults) :
        /\ ~o.ok
        /\ chat_call' = o.chat
        /\ o.exc # ApprovalRequired
        /\ GivesUp(attempt, o.exc, retry_policy)
        /\ steps' = [steps EXCEPT ![LastStep].status = "failed",
                                  ![LastStep].error_message = StrExc(o.exc)]
        /\ pending' = [kind |-> "exc", data |-> NoData, exc |-> o.exc]
    /\ handler_calls' = handler_calls + 1
    /\ Emit(Event("step.failed", CurrentNode))
    /\ pc' = "step_flushed"
    /\ UNCHANGED <<graphVars, configVars, agentVars, resolverVars, add_step_calls, sorted_nodes, execution,
                   step_logs, idx, context, skipped_nodes, retry_policy, cost_tracker,
                   attempt, retry_log, result, retries, run_base, faults>>

\* execute_node lines 185-192 and run lines 183-185: the info log, the
\* return, the output stored in the context under the node key.
StepReturns ==
    /\ pc = "step_flushed"
    /\ pending.kind = "output"
    /\ step_logs' = Append(step_logs, [step |-> LastStep, level |-> "info"])
    /\ context' = [context EXCEPT ![NodeKey(CurrentNode)] = NodeEntry(pending.data)]
    /\ idx' = idx + 1
    /\ pending' = NoPending
    /\ pc' = "loop"
    /\ UNCHANGED <<graphVars, configVars, agentVars, resolverVars, add_step_calls, sorted_nodes, execution, steps,
                   events, published, skipped_nodes, retry_policy, cost_tracker,
                   attempt, handler_calls, chat_call, retry_log, result, retries,
                   run_base, faults>>

\* The failure is logged and swallowed: the loop goes on with the next node.
StepRaisesMutant ==
    /\ pc = "step_flushed"
    /\ pending.kind = "exc"
    /\ step_logs' = Append(step_logs, [step |-> LastStep, level |-> "error"])
    /\ idx' = idx + 1
    /\ pending' = NoPending
    /\ pc' = "loop"
    /\ UNCHANGED <<graphVars, configVars, agentVars, resolverVars, add_step_calls, sorted_nodes, execution, steps,
                   events, published, context, skipped_nodes, retry_policy,
                   cost_tracker, attempt, handler_calls, chat_call, retry_log, result,
                   retries, run_base, faults>>

\* execute_node lines 226-227: the error log, the re-raise.
StepRaises ==
    /\ pc = "step_flushed"
    /\ pending.kind = "exc"
    /\ step_logs' = Append(step_logs, [step |-> LastStep, level |-> "error"])
    /\ pc' = "unwind"
    /\ UNCHANGED <<graphVars, configVars, agentVars, resolverVars, add_step_calls, sorted_nodes, execution, steps,
                   events, published, idx, context, skipped_nodes, retry_policy,
                   cost_tracker, attempt, handler_calls, chat_call, retry_log, pending,
                   result, retries, run_base, faults>>

\* Lines 187-208: the loop is over.
RunCompletes ==
    /\ pc = "loop"
    /\ idx > Len(sorted_nodes.order)
    /\ execution' = [execution EXCEPT !.status = "completed",
                                      !.total_tokens = cost_tracker.total_tokens,
                                      !.total_cost = Numeric6(cost_tracker.total_cost)]
    /\ Emit(Event("execution.completed", 0))
    /\ result' = [kind |-> "returned", status |-> "completed", exc |-> ""]
    /\ pc' = "returned"
    /\ UNCHANGED <<graphVars, configVars, agentVars, resolverVars, add_step_calls, runLocals, steps, step_logs,
                   handler_calls, chat_call, retry_log, retries, faults>>

\* The approval signal handled like any other exception.
RunPausesMutant ==
    /\ pc = "unwind"
    /\ pending.exc = ApprovalRequired
    /\ execution' = [execution EXCEPT !.status = "failed",
                                      !.error_message = StrExc(pending.exc)]
    /\ Emit(Event("execution.failed", 0))
    /\ result' = [kind |-> "raised", status |-> "", exc |-> pending.exc]
    /\ pc' = "raised"
    /\ UNCHANGED <<graphVars, configVars, agentVars, resolverVars, add_step_calls, runLocals, steps, step_logs,
                   handler_calls, chat_call, retry_log, retries, faults>>

\* Lines 210-217: except HumanApprovalRequiredError.
RunPauses ==
    /\ pc = "unwind"
    /\ pending.exc = ApprovalRequired
    /\ execution' = [execution EXCEPT !.status = "waiting_approval",
                                      !.total_tokens = cost_tracker.total_tokens,
                                      !.total_cost = Numeric6(cost_tracker.total_cost)]
    /\ Emit(Event("execution.waiting_approval", 0))
    /\ result' = [kind |-> "returned", status |-> "waiting_approval", exc |-> ""]
    /\ pc' = "returned"
    /\ UNCHANGED <<graphVars, configVars, agentVars, resolverVars, add_step_calls, runLocals, steps, step_logs,
                   handler_calls, chat_call, retry_log, retries, faults>>

\* Lines 219-234: except Exception.
RunFails ==
    /\ pc = "unwind"
    /\ pending.exc # ApprovalRequired
    /\ execution' = [execution EXCEPT !.status = "failed",
                                      !.error_message = StrExc(pending.exc),
                                      !.total_tokens = cost_tracker.total_tokens,
                                      !.total_cost = Numeric6(cost_tracker.total_cost)]
    /\ Emit(Event("execution.failed", 0))
    /\ result' = [kind |-> "raised", status |-> "", exc |-> pending.exc]
    /\ pc' = "raised"
    /\ UNCHANGED <<graphVars, configVars, agentVars, resolverVars, add_step_calls, runLocals, steps, step_logs,
                   handler_calls, chat_call, retry_log, retries, faults>>

\* ------------------------------------------------------------------------
\* The Celery task execute_agent
\* ------------------------------------------------------------------------
TaskMaxRetries == 3
MaxTaskRetries == 1

\* execute_agent, lines 38-40: the run returned.
TaskSucceeds ==
    /\ pc = "returned"
    /\ pc' = "done"
    /\ UNCHANGED <<graphVars, configVars, agentVars, resolverVars, add_step_calls, runLocals, execution, steps,
                   step_logs, events, published, handler_calls, chat_call, retry_log,
                   result, retries, faults>>

\* execute_agent, lines 41-44: _mark_failed, then self.retry while retries
\* remain.  Exploration stops ("cut") after MaxTaskRetries retries.
TaskFails ==
    /\ pc = "raised"
    /\ execution' = [execution EXCEPT !.status = "failed",
                                      !.error_message = StrExc(result.exc)]
    /\ IF retries < TaskMaxRetries
       THEN IF retries < MaxTaskRetries
            THEN pc' = "queued" /\ retries' = retries + 1
            ELSE pc' = "cut" /\ retries' = retries
       ELSE pc' = "done" /\ retries' = retries
    /\ UNCHANGED <<graphVars, configVars, agentVars, resolverVars, add_step_calls, runLocals, steps, step_logs,
                   events, published, handler_calls, chat_call, retry_log, result,
                   faults>>

\* ------------------------------------------------------------------------
\* The execution service
\* ------------------------------------------------------------------------

\* cancel_execution, lines 237-247.
cancel_execution ==
    /\ execution.status \notin {"completed", "failed", "cancelled"}
    /\ execution' = [execution EXCEPT !.status = "cancelled"]
    /\ UNCHANGED <<graphVars, configVars, agentVars, resolverVars, add_step_calls, runLocals, steps, step_logs,
                   events, published, pc, handler_calls, chat_call, retry_log, result,
                   retries, faults>>

WaitingSteps == {k \in 1..Len(steps) : steps[k].status = "waiting_approval"}

\* The update without the status filter: every step is marked approved.
approve_stepMutant ==
    /\ execution.status = "waiting_approval"
    /\ steps' = [k \in 1..Len(steps) |-> [steps[k] EXCEPT !.status = "approved"]]
    /\ execution' = [execution EXCEPT !.status = "running"]
    /\ UNCHANGED <<graphVars, configVars, agentVars, resolverVars, add_step_calls, runLocals, step_logs, events,
                   published, pc, handler_calls, chat_call, retry_log, result, retries,
                   faults>>

\* approve_step also sends the task to the worker again.
approve_stepQueuesMutant ==
    /\ execution.status = "waiting_approval"
    /\ Cardinality(WaitingSteps) <= 1
    /\ steps' = [k \in 1..Len(steps) |->
                    IF k \in WaitingSteps THEN [steps[k] EXCEPT !.status = "approved"]
                    ELSE steps[k]]
    /\ execution' = [execution EXCEPT !.status = "running"]
    /\ pc' = "queued"
    /\ UNCHANGED <<graphVars, configVars, agentVars, resolverVars, add_step_calls, runLocals,
                   step_logs, events, published, handler_calls, chat_call, retry_log,
                   result, retries, faults>>

\* approve_step, lines 277-299; scalar_one_or_none raises when several
\* steps are waiting, before anything is written.
approve_step ==
    /\ execution.status = "waiting_approval"
    /\ Cardinality(WaitingSteps) <= 1
    /\ steps' = [k \in 1..Len(steps) |->
                    IF k \in WaitingSteps THEN [steps[k] EXCEPT !.status = "approved"]
                    ELSE steps[k]]
    /\ execution' = [execution EXCEPT !.status = "running"]
    /\ UNCHANGED <<graphVars, configVars, agentVars, resolverVars, add_step_calls, runLocals, step_logs, events,
                   published, pc, handler_calls, chat_call, retry_log, result, retries,
                   faults>>

\* ------------------------------------------------------------------------
\* Specification Spec: one call of Orchestrator.run on a bounded graph
\* ------------------------------------------------------------------------
MaxEdges == 2
RunNodeTypes == {"action", "logic", "human"}
EdgeLabels == {NoLabel, "true"}
RunFaults == {"httpx.ReadTimeout", "ValueError"}

\* The node list is in id order: a graph whose nodes come back in another
\* order is this one with its ids renamed.
Init ==
    /\ \E n \in 1..MaxNodes :
        /\ nodes = [k \in 1..n |-> k]
        /\ edges \in SeqsUpTo([source : 1..n, target : 1..n, label : EdgeLabels], MaxEdges)
        /\ node_type \in [1..n -> RunNodeTypes]
        /\ node_label \in [1..n -> {NoLabel} \cup Labels]
    /\ execution = NewExecution({})
    /\ faults = RunFaults
    /\ InitRun
    /\ InitConfig

RunNext ==
    \/ RunStart
    \/ RunSort
    \/ StartStep
    \/ AttemptReturns
    \/ AttemptRetries
    \/ AttemptPauses
    \/ AttemptFails
    \/ StepReturns
    \/ StepRaises
    \/ RunCompletes
    \/ RunPauses
    \/ RunFails

Next ==
    \/ RunNext
    \/ LoopSkip

Spec == Init /\ [][Next]_vars

\* ------------------------------------------------------------------------
\* Specification SpecService: the worker task, cancel_execution and
\* approve_step around the runs of one execution
\* ------------------------------------------------------------------------
ServiceNodeTypes == {"action", "human"}

InitService ==
    /\ \E n \in 1..MaxNodes :
        /\ nodes = [k \in 1..n |-> k]
        /\ edges = <<>>
        /\ node_type \in [1..n -> ServiceNodeTypes]
        /\ node_label = [k \in 1..n |-> NoLabel]
    /\ execution = NewExecution({})
    /\ faults = RunFaults
    /\ InitRun
    /\ InitConfig

NextService ==
    \/ RunNext
    \/ TaskSucceeds
    \/ TaskFails
    \/ cancel_execution
    \/ approve_step

SpecService == InitService /\ [][NextService]_vars

\* ------------------------------------------------------------------------
\* Specification SpecStep: one node executed under a bounded retry policy
\* ------------------------------------------------------------------------
MaxPolicyRetries == 2

InitStep ==
    /\ nodes = <<1>>
    /\ edges = <<>>
    /\ node_type \in [{1} -> NodeTypes]
    /\ node_label \in [{1} -> {NoLabel} \cup Labels]
    /\ \E meta \in {{}} \cup {{m} : m \in 0..MaxPolicyRetries} : execution = NewExecution(meta)
    /\ faults = ExceptionClasses \ {ApprovalRequired}
    /\ InitRun
    /\ router \in RouterConfigs
    /\ node_model \in [{1} -> ModelPrefixes]
    /\ redis_down = FALSE
    /\ agent_settings = NoSettings
    /\ resolve_in = NoResolve
    /\ resolve_out = NoResolve

SpecStep == InitStep /\ [][RunNext]_vars

\* ------------------------------------------------------------------------
\* Specification SpecSort: _topological_sort applied to bounded graphs
\* ------------------------------------------------------------------------
NodeOrders(n) == {p \in [1..n -> 1..n] : \A a, b \in 1..n : a # b => p[a] # p[b]}

InitSort ==
    /\ \E n \in 1..MaxNodes :
        /\ nodes \in NodeOrders(n)
        /\ edges \in SeqsUpTo([source : 1..n, target : 1..n, label : {NoLabel}], MaxSortEdges)
        /\ node_type = [k \in 1..n |-> "action"]
        /\ node_label = [k \in 1..n |-> NoLabel]
    /\ execution = NewExecution({})
    /\ faults = {}
    /\ InitRun
    /\ InitConfig

\* The call of line 106 alone.
SortApply ==
    /\ sorted_nodes = NotSorted
    /\ sorted_nodes' = _topological_sort(nodes, edges)
    /\ UNCHANGED <<graphVars, configVars, agentVars, resolverVars, add_step_calls, execution, steps, step_logs,
                   events, published, pc, idx, context, skipped_nodes, retry_policy,
                   cost_tracker, attempt, handler_calls, chat_call, retry_log, pending,
                   result, retries, run_base, faults>>

NextSort == SortApply

SpecSort == InitSort /\ [][NextSort]_vars

\* C1: for every acyclic graph whose edges connect nodes of the graph,
\* _topological_sort returns each node exactly once and places the source
\* of every edge before its target.
C1_ValidTopologicalOrder ==
    (sorted_nodes # NotSorted /\ WellFormed(nodes, edges) /\ ~HasCycle(nodes, edges)) =>
        /\ sorted_nodes.ok
        /\ Len(sorted_nodes.order) = Len(nodes)
        /\ \A n \in Range(nodes) : Count(sorted_nodes.order, n) = 1
        /\ \A k \in 1..Len(edges) :
              /\ IndexOf(sorted_nodes.order, edges[k].source) > 0
              /\ IndexOf(sorted_nodes.order, edges[k].source)
                    < IndexOf(sorted_nodes.order, edges[k].target)

\* An acyclic graph with a fork and a join (at least three edges, two of
\* them into the same node) has been sorted.
C1_Witness ==
    /\ sorted_nodes # NotSorted
    /\ sorted_nodes.ok
    /\ Len(nodes) = 3
    /\ Cardinality(EdgePairs(edges)) = 3
    /\ \E n \in Range(nodes) : InDegree(nodes, edges)[n] = 2

\* ------------------------------------------------------------------------
\* Properties of the run
\* ------------------------------------------------------------------------

\* C2: for every graph that contains a cycle (a self-loop included),
\* Orchestrator.run fails with the cycle error before any node handler is
\* invoked and before any step record is created.
C2_CycleRejectedBeforeExecution ==
    HasCycle(nodes, edges) =>
        /\ steps = <<>>
        /\ handler_calls = 0
        /\ pc \in {"queued", "started", "raised"}
        /\ pc = "raised" => result = [kind |-> "raised", status |-> "", exc |-> CycleError]

\* The run of a graph with a self-loop and the run of a graph with a longer
\* cycle next to a node outside the cycle have both ended in the cycle error.
C2_Witness ==
    /\ pc = "raised"
    /\ result.exc = CycleError
    /\ Len(nodes) = 3
    /\ \E k \in 1..Len(edges) : edges[k].source = edges[k].target
    /\ \E n \in Range(nodes) : InDegree(nodes, edges)[n] = 0

\* The nodes the run has executed (a step row exists) or skipped.
Executed(n) == \E k \in (run_base + 1)..Len(steps) : steps[k].node_id = n
Processed(n) == Executed(n) \/ n \in skipped_nodes

\* The branch in the output the node's own handler returned in this run.
OwnBranch(n) ==
    IF \E k \in (run_base + 1)..Len(steps) : steps[k].node_id = n
    THEN LET k == CHOOSE j \in (run_base + 1)..Len(steps) : steps[j].node_id = n
         IN steps[k].output_data.branch
    ELSE NoBranch

\* An edge is active as the specification of branch activation defines it.
ActiveEdge(e) ==
    /\ e.source \notin skipped_nodes
    /\ \/ node_type[e.source] # "logic"
       \/ e.label = NoLabel
       \/ /\ node_type[e.source] = "logic"
          /\ e.label # NoLabel
          /\ e.label = OwnBranch(e.source)

HasActiveEdge(n) == \E k \in 1..Len(edges) : edges[k].target = n /\ ActiveEdge(edges[k])

\* C3: a node with incoming edges is executed iff at least one of its
\* incoming edges is active (source not skipped, and unconditional or
\* labelled with the branch of its logic source's output); a node without
\* incoming edges is always executed.
C3_ExecutedIffActive ==
    \A n \in Range(nodes) :
        Processed(n) =>
            IF Incoming(n) = <<>> THEN Executed(n)
            ELSE Executed(n) <=> HasActiveEdge(n)

\* Every incoming edge comes from a skipped node or is a labelled edge of a
\* logic node whose own output has another branch.
OnlyDeadEdges(n) ==
    /\ Incoming(n) # <<>>
    /\ \A k \in 1..Len(edges) :
          edges[k].target = n =>
              \/ edges[k].source \in skipped_nodes
              \/ /\ node_type[edges[k].source] = "logic"
                 /\ edges[k].label # NoLabel
                 /\ edges[k].label # OwnBranch(edges[k].source)

\* C4: skip propagates transitively: a processed node all of whose
\* incoming edges come from skipped nodes or are non-matching labelled
\* edges of logic nodes is skipped and never executed.
C4_SkipPropagates ==
    \A n \in Range(nodes) :
        (Processed(n) /\ OnlyDeadEdges(n)) => (n \in skipped_nodes /\ ~Executed(n))

FailedSteps == {k \in 1..Len(steps) : steps[k].status = "failed"}

\* C5: fail-fast: once a step has ended failed, it is the last step row,
\* no handler runs any more, the steps before it are still completed, and
\* when the run ends the exception is raised to the caller with the
\* execution failed and carrying the exception's message.
C5_FailFast ==
    \A k \in FailedSteps :
        /\ k = Len(steps)
        /\ pc \in {"step_flushed", "unwind", "raised"}
        /\ pending.kind = "exc"
        /\ \A j \in 1..(k - 1) : steps[j].status = "completed"
        /\ pc = "raised" =>
              /\ result = [kind |-> "raised", status |-> "", exc |-> pending.exc]
              /\ execution.status = "failed"
              /\ execution.error_message = StrExc(pending.exc)
              /\ execution.error_message = steps[k].error_message

\* The second node of three has failed after the first completed, and the
\* run has raised.
C5_Witness ==
    /\ pc = "raised"
    /\ Len(sorted_nodes.order) = 3
    /\ Len(steps) = 2
    /\ steps[1].status = "completed"
    /\ steps[2].status = "failed"

\* C8: a step of a human node ends waiting_approval and is the last step of
\* the run; the run then returns waiting_approval without raising, with the
\* execution waiting_approval and execution.waiting_approval emitted right
\* after step.waiting_approval.
C8_HumanNodePauses ==
    \A k \in 1..Len(steps) :
        node_type[steps[k].node_id] = "human" =>
            /\ k = Len(steps)
            /\ \/ steps[k].status = "running" /\ pc = "handler"
               \/ /\ steps[k].status = "waiting_approval"
                  /\ pc \in {"unwind", "returned"}
                  /\ events[Len(events) - (IF pc = "returned" THEN 1 ELSE 0)]
                        = Event("step.waiting_approval", steps[k].node_id)
                  /\ pc = "returned" =>
                        /\ result = [kind |-> "returned", status |-> "waiting_approval",
                                     exc |-> ""]
                        /\ execution.status = "waiting_approval"
                        /\ events[Len(events)] = Event("execution.waiting_approval", 0)

\* A human node has paused the run after an earlier node completed and
\* before a later node of the order.
C8_Witness ==
    /\ pc = "returned"
    /\ result.status = "waiting_approval"
    /\ Len(steps) = 2
    /\ steps[1].status = "completed"
    /\ idx < Len(sorted_nodes.order)

\* ------------------------------------------------------------------------
\* Properties of the retry loop
\* ------------------------------------------------------------------------
StepEnded == pc \in {"step_flushed", "unwind", "returned", "raised"} /\ Len(steps) > 0

\* C6: retry bound: the handler is never invoked more than max_retries + 1
\* times; a step that ends completed after k failed attempts has k + 1
\* invocations, k retry warnings, k <= max_retries and no step.failed
\* event; a step that fails on a retryable error has max_retries + 1
\* invocations.
C6_RetryBound ==
    /\ handler_calls <= retry_policy.max_retries + 1
    /\ Len(retry_log) <= retry_policy.max_retries
    /\ (StepEnded /\ steps[LastStep].status = "completed") =>
          /\ handler_calls = Len(retry_log) + 1
          /\ \A j \in 1..Len(events) : events[j].type # "step.failed"
    /\ (StepEnded /\ steps[LastStep].status = "failed"
          /\ _is_retryable(pending.exc, retry_policy)) =>
          /\ handler_calls = retry_policy.max_retries + 1
          /\ Len(retry_log) = retry_policy.max_retries

\* A handler has failed max_retries times and then succeeded.
C6_Witness ==
    /\ StepEnded
    /\ steps[LastStep].status = "completed"
    /\ retry_policy.max_retries = DefaultMaxRetries
    /\ Len(retry_log) = DefaultMaxRetries
    /\ handler_calls = DefaultMaxRetries + 1

\* The rule of the claim: the type name of the class or of an ancestor is
\* a member of the retryable set.
NameRetryable(cls, policy) ==
    \E k \in 1..Len(Mro(cls)) : ClassName(Mro(cls)[k]) \in policy.retryable_errors

\* A member of the retryable set occurs in the module-qualified name of the
\* class or of an ancestor.
QualifiedNameRetryable(cls, policy) ==
    \E k \in 1..Len(Mro(cls)) :
        \E r \in policy.retryable_errors : Contains(Qualified(Mro(cls)[k]), r)

\* C7 as stated: an attempt is followed by another iff attempts remain, the
\* exception is not the approval signal and the type name of its class or
\* of an ancestor is exactly a member of the retryable set.
C7_RetryIffExactName ==
    /\ \A j \in 1..Len(retry_log) :
          /\ retry_log[j].attempt <= retry_policy.max_retries
          /\ retry_log[j].error # ApprovalRequired
          /\ NameRetryable(retry_log[j].error, retry_policy)
    /\ (StepEnded /\ pending.kind = "exc" /\ pending.exc \in ExceptionClasses) =>
          /\ handler_calls = Len(retry_log) + 1
          /\ \/ handler_calls = retry_policy.max_retries + 1
             \/ pending.exc = ApprovalRequired
             \/ ~NameRetryable(pending.exc, retry_policy)

\* C7 amended: as C7, the third condition being that a member of the
\* retryable set occurs in the module-qualified name of the class or of an
\* ancestor (the text of the MRO is searched).
C7_RetryIffQualifiedName ==
    /\ \A j \in 1..Len(retry_log) :
          /\ retry_log[j].attempt <= retry_policy.max_retries
          /\ retry_log[j].error # ApprovalRequired
          /\ QualifiedNameRetryable(retry_log[j].error, retry_policy)
          /\ retry_log[j].wait = Min(BackoffBase ^ (retry_log[j].attempt - 1), BackoffMax)
    /\ (StepEnded /\ pending.kind = "exc" /\ pending.exc \in ExceptionClasses) =>
          /\ handler_calls = Len(retry_log) + 1
          /\ \/ handler_calls = retry_policy.max_retries + 1
             \/ pending.exc = ApprovalRequired
             \/ ~QualifiedNameRetryable(pending.exc, retry_policy)

\* An httpx.ReadTimeout, retryable only through the qualified name of its
\* ancestor httpx.TimeoutException, has been retried, and a ValueError has
\* then ended the step at once.
C7_Witness ==
    /\ StepEnded
    /\ Len(retry_log) = 1
    /\ retry_log[1].error = "httpx.ReadTimeout"
    /\ pending.exc = "ValueError"
    /\ handler_calls = 2
    /\ retry_policy.max_retries = DefaultMaxRetries

\* ------------------------------------------------------------------------
\* Properties of the service operations
\* ------------------------------------------------------------------------

\* C9: once cancel_execution has set the execution to cancelled, no node
\* that had not started is dispatched: no step row is created while the
\* execution is cancelled.
C9_NoDispatchAfterCancel ==
    [][execution.status = "cancelled" => Len(steps') = Len(steps)]_vars

Same(k) ==
    /\ steps'[k].status = steps[k].status
    /\ steps'[k].output_data = steps[k].output_data
    /\ steps'[k].error_message = steps[k].error_message

\* C10 as stated: once a step is completed, failed or waiting_approval, no
\* operation changes its status, output or error message.
C10_TerminalStepsImmutable ==
    [][\A k \in 1..Len(steps) :
          steps[k].status \in {"completed", "failed", "waiting_approval"} =>
              (Len(steps') >= k /\ Same(k))]_vars

\* C10 amended: a completed or failed step never changes; a
\* waiting_approval step changes only by approve_step on an execution that
\* is waiting_approval, which sets the step's status to approved and leaves
\* its output and error message.
C10_FinishedStepsImmutable ==
    [][\A k \in 1..Len(steps) :
          /\ steps[k].status \in {"completed", "failed", "approved"} =>
                (Len(steps') >= k /\ Same(k))
          /\ steps[k].status = "waiting_approval" =>
                /\ Len(steps') >= k
                /\ \/ Same(k)
                   \/ /\ steps'[k] = [steps[k] EXCEPT !.status = "approved"]
                      /\ execution.status = "waiting_approval"
                      /\ execution'.status = "running"]_vars

\* A step has been approved after another completed, and the task is over.
C10_Witness ==
    /\ pc = "done"
    /\ \E k \in 1..Len(steps) : steps[k].status = "approved"
    /\ \E k \in 1..Len(steps) : steps[k].status = "completed"

\* ------------------------------------------------------------------------
\* Specification SpecStepFair: SpecStep where the coroutine of the run keeps
\* being scheduled and every handler call returns or raises
\* ------------------------------------------------------------------------
SpecStepFair == InitStep /\ [][RunNext]_vars /\ WF_vars(RunNext)

\* ------------------------------------------------------------------------
\* Properties of the step life cycle
\* ------------------------------------------------------------------------
StepEndEvents == {"step.completed", "step.failed", "step.waiting_approval"}

StartedEvents(n) == {j \in 1..Len(events) : events[j] = Event("step.started", n)}
EndEvents(n) ==
    {j \in 1..Len(events) : events[j].node_id = n /\ events[j].type \in StepEndEvents}

EndEventOf(status) ==
    CASE status = "completed" -> "step.completed"
      [] status = "failed" -> "step.failed"
      [] status = "waiting_approval" -> "step.waiting_approval"
      [] OTHER -> "none"

StepLifecycle ==
    /\ (pc = "handler" \/ handler_calls > 0) =>
          (Len(steps) > 0 /\ StartedEvents(steps[LastStep].node_id) # {})
    /\ \A k \in 1..Len(steps) :
          LET n == steps[k].node_id
          IN /\ Cardinality(StartedEvents(n)) = 1
             /\ IF steps[k].status = "running"
                THEN k = Len(steps) /\ pc = "handler" /\ EndEvents(n) = {}
                ELSE /\ steps[k].status \in {"completed", "failed", "waiting_approval"}
                     /\ Cardinality(EndEvents(n)) = 1
                     /\ \A j \in EndEvents(n) :
                           /\ events[j].type = EndEventOf(steps[k].status)
                           /\ \A i \in StartedEvents(n) : i < j

\* C11: for every executed node a running step row and step.started exist
\* before the handler's first attempt; the step then ends in exactly one of
\* completed, failed, waiting_approval, with exactly one end event, the one
\* of its final status.
C11_StepLifecycle == []StepLifecycle /\ ((pc = "handler") ~> (pc # "handler"))

\* A step has failed after a retried attempt: its row was running during
\* two handler calls and has one step.failed event.
C11_Witness ==
    /\ pc = "raised"
    /\ Len(steps) = 1
    /\ steps[1].status = "failed"
    /\ handler_calls = 2
    /\ events[Len(events) - 1] = Event("step.failed", 1)

RunningSteps == {k \in 1..Len(steps) : steps[k].status = "running"}

\* C12: within one run at most one step is running, and it is the one whose
\* handler is being attempted; steps are started in the computed
\* topological order, so step_order strictly increases from one step row to
\* the next.
C12_OneStepAtATime ==
    /\ Cardinality(RunningSteps) <= 1
    /\ \A k \in RunningSteps : k = Len(steps) /\ pc = "handler"
    /\ pc = "handler" => RunningSteps = {Len(steps)}
    /\ \A k \in 1..Len(steps) :
          /\ steps[k].step_order + 1 \in 1..Len(sorted_nodes.order)
          /\ steps[k].node_id = sorted_nodes.order[steps[k].step_order + 1]
          /\ steps[k].step_order + 1 <= idx
          /\ \A j \in 1..(k - 1) : steps[j].step_order < steps[k].step_order

\* The third node of the order is running after the first completed and the
\* second was skipped: step orders 0 and 2.
C12_Witness ==
    /\ pc = "handler"
    /\ Len(steps) = 2
    /\ steps[1].step_order = 0
    /\ steps[2].step_order = 2
    /\ steps[1].status = "completed"
    /\ steps[2].status = "running"

\* C13: when the graph contains a cycle, the execution's status never
\* becomes running.
C13_CycleNeverRunning == HasCycle(nodes, edges) => execution.status # "running"

\* ------------------------------------------------------------------------
\* Properties of error handling
\* ------------------------------------------------------------------------

\* The timeout and connection category: the class or an ancestor is one of
\* the timeout or connection classes of the builtins or of httpx.
TimeoutOrConnection(cls) ==
    cls \in ExceptionClasses /\
    \E k \in 1..Len(Mro(cls)) :
        Mro(cls)[k] \in {"TimeoutError", "ConnectionError", "httpx.TimeoutException",
                         "httpx.ConnectError"}

\* The latest handler attempt failed on timeouts or connection errors: the
\* exception the handler met, which for an ai node is the one of each
\* provider call made by the router.
AttemptTimedOut ==
    IF node_type[steps[LastStep].node_id] = "ai"
    THEN /\ chat_call.calls # <<>>
         /\ \A k \in 1..Len(chat_call.calls) : TimeoutOrConnection(chat_call.calls[k].outcome)
    ELSE pending.kind = "exc" /\ TimeoutOrConnection(pending.exc)

\* C14: for every node type a step whose handler attempts fail on timeout
\* or connection errors ends failed only after max_retries + 1 attempts;
\* in particular an ai node whose provider calls all time out.
C14_TimeoutsRetried ==
    (StepEnded /\ steps[LastStep].status = "failed" /\ AttemptTimedOut) =>
        handler_calls = retry_policy.max_retries + 1

\* ------------------------------------------------------------------------
\* Specification SpecPublish: runs during which any publish may fail
\* ------------------------------------------------------------------------
MaxPublishNodes == 2

InitPublish ==
    /\ \E n \in 1..MaxPublishNodes :
        /\ nodes = [k \in 1..n |-> k]
        /\ edges \in SeqsUpTo([source : 1..n, target : 1..n, label : EdgeLabels], 1)
        /\ node_type \in [1..n -> RunNodeTypes]
        /\ node_label = [k \in 1..n |-> NoLabel]
    /\ execution = NewExecution({})
    /\ faults = RunFaults
    /\ InitRun
    /\ router = <<"ollama">>
    /\ node_model = [n \in Range(nodes) |-> "llama"]
    /\ redis_down = TRUE
    /\ agent_settings = NoSettings
    /\ resolve_in = NoResolve
    /\ resolve_out = NoResolve

SpecPublish == InitPublish /\ [][Next]_vars

\* a is b with some elements left out
RECURSIVE IsSubSeq(_, _)
IsSubSeq(a, b) ==
    IF a = <<>> THEN TRUE
    ELSE IF b = <<>> THEN FALSE
    ELSE IF Head(a) = Head(b) THEN IsSubSeq(Tail(a), Tail(b))
    ELSE IsSubSeq(a, Tail(b))

\* How a run ends, read from its step rows: what the run without publish
\* failures does with the same handler results.
RunOutcomeFromSteps ==
    /\ pc = "returned" =>
          /\ result.status = execution.status
          /\ IF \E k \in 1..Len(steps) : steps[k].status = "waiting_approval"
             THEN execution.status = "waiting_approval"
             ELSE /\ execution.status = "completed"
                  /\ \A n \in Range(nodes) : Processed(n)
                  /\ \A k \in 1..Len(steps) : steps[k].status = "completed"
    /\ (pc = "raised" /\ ~HasCycle(nodes, edges)) =>
          /\ execution.status = "failed"
          /\ steps[Len(steps)].status = "failed"
          /\ execution.error_message = steps[Len(steps)].error_message
    /\ pc \in {"returned", "raised"} =>
          /\ execution.total_tokens = cost_tracker.total_tokens
          /\ \A n \in Range(nodes) :
                (Executed(n) /\ steps[CHOOSE k \in 1..Len(steps) : steps[k].node_id = n].status
                                  = "completed")
                    => context[NodeKey(n)].kind = "node"

\* C15: whatever publish calls fail, no exception leaves _emit_event, what
\* was delivered is what was emitted with the failed publishes left out,
\* and statuses, steps, context and totals are those of the run in which
\* every publish succeeds.
C15_PublishFailuresSwallowed ==
    /\ ~published.raised
    /\ IsSubSeq(published.log, events)
    /\ RunOutcomeFromSteps
    /\ StepLifecycle
    /\ C5_FailFast
    /\ C8_HumanNodePauses
    /\ C12_OneStepAtATime

\* A run has completed although the publish of execution.started and of the
\* last event failed and one in between succeeded.
C15_Witness ==
    /\ pc = "returned"
    /\ execution.status = "completed"
    /\ Len(steps) = 2
    /\ Len(published.log) = 1
    /\ published.log[1].type = "step.completed"

\* ------------------------------------------------------------------------
\* Properties of the context and the totals
\* ------------------------------------------------------------------------

\* The data the node's own handler returned in this run.
OwnOutput(n) ==
    steps[CHOOSE k \in (run_base + 1)..Len(steps) : steps[k].node_id = n].output_data

\* C16: when a run ends completed, the context holds for every executed
\* node, under the node's key (label, or id without a label), the output
\* its own handler returned; labels need not be unique.
C16_ContextHoldsOwnOutputs ==
    (pc = "returned" /\ result.status = "completed") =>
        \A n \in Range(nodes) :
            Executed(n) => context[NodeKey(n)] = NodeEntry(OwnOutput(n))

\* ------------------------------------------------------------------------
\* Specification SpecCost: runs of graphs with ai nodes, whose responses
\* carry token usage and cost
\* ------------------------------------------------------------------------
MaxCostNodes == 2
CostNodeTypes == {"ai", "action", "human"}

InitCost ==
    /\ \E n \in 1..MaxCostNodes :
        /\ nodes = [k \in 1..n |-> k]
        /\ node_type \in [1..n -> CostNodeTypes]
        /\ node_label = [k \in 1..n |-> NoLabel]
        /\ node_model = [k \in 1..n |-> "gemini"]
    /\ edges = <<>>
    /\ execution = NewExecution({})
    /\ faults = RunFaults
    /\ InitRun
    /\ router = <<"google">>
    /\ redis_down = FALSE
    /\ agent_settings = NoSettings
    /\ resolve_in = NoResolve
    /\ resolve_out = NoResolve

SpecCost == InitCost /\ [][RunNext]_vars

CompletedSteps == {k \in 1..Len(steps) : steps[k].status = "completed"}

\* Sums over the completed steps among the first k step rows.
RECURSIVE CompletedTokens(_)
CompletedTokens(k) ==
    IF k = 0 THEN 0
    ELSE CompletedTokens(k - 1) + (IF k \in CompletedSteps THEN steps[k].tokens_used ELSE 0)

RECURSIVE CompletedCost(_)
CompletedCost(k) ==
    IF k = 0 THEN 0
    ELSE CompletedCost(k - 1) + (IF k \in CompletedSteps THEN steps[k].cost ELSE 0)

\* C17: whenever a run ends, the execution's total_tokens is the sum of
\* tokens_used over its completed steps and its total_cost the sum of their
\* costs.
C17_TotalsAreSums ==
    pc \in {"returned", "raised"} =>
        /\ execution.total_tokens = CompletedTokens(Len(steps))
        /\ execution.total_cost = CompletedCost(Len(steps))

ExecutionEndEvents ==
    {j \in 1..Len(events) :
        events[j].type \in {"execution.completed", "execution.failed",
                            "execution.waiting_approval"}}

\* C18: execution.started is emitted when the status becomes running, and
\* on every path by which the run ends after that (normal end, pause, step
\* failure, failure while loading or ordering the graph) exactly one of
\* execution.completed, execution.failed, execution.waiting_approval is
\* emitted, after all step events.
C18_StatusChangesHaveEvents ==
    /\ pc # "queued" =>
          /\ Len(events) > 0
          /\ events[1] = Event("execution.started", 0)
          /\ \A j \in 2..Len(events) : events[j].type # "execution.started"
    /\ pc \in {"returned", "raised"} =>
          /\ ExecutionEndEvents = {Len(events)}
          /\ events[Len(events)].type =
                (IF pc = "raised" THEN "execution.failed"
                 ELSE IF result.status = "completed" THEN "execution.completed"
                 ELSE "execution.waiting_approval")
    /\ pc \notin {"returned", "raised"} => ExecutionEndEvents = {}

\* ------------------------------------------------------------------------
\* Specification SpecRouter: ProviderRouter.chat applied to every router
\* configuration, model prefix and pattern of provider failures
\* ------------------------------------------------------------------------
InitRouter ==
    /\ nodes = <<1>>
    /\ edges = <<>>
    /\ node_type = [n \in {1} |-> "ai"]
    /\ node_label = [n \in {1} |-> NoLabel]
    /\ node_model \in [{1} -> ModelPrefixes]
    /\ router \in RouterConfigs
    /\ execution = NewExecution({})
    /\ faults = ProviderFaults
    /\ InitRun
    /\ redis_down = FALSE
    /\ agent_settings = NoSettings
    /\ resolve_in = NoResolve
    /\ resolve_out = NoResolve

\* One call of ProviderRouter.chat.
ChatApply ==
    /\ chat_call = NoChat
    /\ \E out \in [Range(router) -> {"ok"} \cup ProviderFaults] :
          chat_call' = chat(router, node_model[1], out)
    /\ UNCHANGED <<graphVars, configVars, agentVars, resolverVars, add_step_calls, runLocals, execution, steps,
                   step_logs, events, published, pc, handler_calls, retry_log, result,
                   retries, faults>>

NextRouter == ChatApply

SpecRouter == InitRouter /\ [][NextRouter]_vars

\* The providers other than p, in fallback order.
OtherProviders(p) == SelectSeq(router, LAMBDA x : x # p)

\* C19: the provider resolved for the model is called first; if it raises,
\* the other providers are called one at a time in fallback order, the
\* first one never again; no provider is called after a success; the first
\* successful response is returned; if every provider raises, one aggregate
\* error is raised.
C19_FallbackOrder ==
    chat_call # NoChat =>
        LET calls == chat_call.calls
            primary == resolve_provider(router, node_model[1])
        IN /\ Len(calls) >= 1
           /\ calls[1].provider = primary
           /\ Len(calls) - 1 <= Len(OtherProviders(primary))
           /\ \A k \in 2..Len(calls) :
                 calls[k].provider = OtherProviders(primary)[k - 1]
           /\ \A j, k \in 1..Len(calls) : j # k => calls[j].provider # calls[k].provider
           /\ \A k \in 1..(Len(calls) - 1) : calls[k].outcome # "ok"
           /\ chat_call.ok <=> calls[Len(calls)].outcome = "ok"
           /\ chat_call.ok => chat_call.provider = calls[Len(calls)].provider
           /\ ~chat_call.ok =>
                 /\ Len(calls) = Len(router)
                 /\ chat_call.exc = AllProvidersFailed

\* The model names the second provider of three; it and the first have
\* failed and the third has answered.
C19_Witness ==
    /\ router = <<"openai", "anthropic", "google">>
    /\ node_model[1] = "claude"
    /\ chat_call.ok
    /\ chat_call.provider = "google"
    /\ Len(chat_call.calls) = 3
    /\ chat_call.calls[1].provider = "anthropic"
    /\ chat_call.calls[2].provider = "openai"

\* ------------------------------------------------------------------------
\* VariableResolver (engine/variable_resolver.py)
\*
\* Python values carry their type.  A str is a sequence of tokens: the
\* delimiters "{{", "}}", ".", "[", "]", the blank " ", decimal numerals and
\* words.  A dict is the sequence of its items in insertion order.
\* ------------------------------------------------------------------------
None == [type |-> "NoneType"]
PyInt(n) == [type |-> "int", n |-> n]
PyStr(s) == [type |-> "str", s |-> s]
PyList(items) == [type |-> "list", items |-> items]
PyDict(pairs) == [type |-> "dict", pairs |-> pairs]

\* The numerals of the model, matched by \d+, with int() and str() on them.
Numerals == <<"0", "1", "42">>
NumeralValues == <<0, 1, 42>>
IntOf(tok) == NumeralValues[IndexOf(Numerals, tok)]
NumeralOf(n) == Numerals[IndexOf(NumeralValues, n)]

\* dict.get(key)
DictGet(d, key) ==
    IF \E i \in 1..Len(d.pairs) : d.pairs[i].k = key
    THEN d.pairs[CHOOSE i \in 1..Len(d.pairs) : d.pairs[i].k = key].v
    ELSE None

\* str.strip()
RECURSIVE Strip(_)
Strip(s) ==
    IF s = <<>> THEN s
    ELSE IF Head(s) = " " THEN Strip(Tail(s))
    ELSE IF s[Len(s)] = " " THEN Strip(SubSeq(s, 1, Len(s) - 1))
    ELSE s

\* str.split(".")
RECURSIVE Split(_)
Split(s) ==
    IF \E i \in 1..Len(s) : s[i] = "."
    THEN LET i == CHOOSE i \in 1..Len(s) :
                     s[i] = "." /\ \A j \in 1..(i - 1) : s[j] # "."
         IN <<SubSeq(s, 1, i - 1)>> \o Split(SubSeq(s, i + 1, Len(s)))
    ELSE <<s>>

\* ARRAY_INDEX_PATTERN.match(segment): ^(.+?)\[(\d+)\]$
ARRAY_INDEX_PATTERN(segment) ==
    /\ Len(segment) >= 4
    /\ segment[Len(segment)] = "]"
    /\ segment[Len(segment) - 1] \in Range(Numerals)
    /\ segment[Len(segment) - 2] = "["

\* The loop of _resolve_path from segment k on.
RECURSIVE ResolveSegments(_, _, _)
ResolveSegments(current, segments, k) ==
    IF k > Len(segments) THEN current
    ELSE IF current = None THEN None
    ELSE LET segment == segments[k] IN
         IF ARRAY_INDEX_PATTERN(segment)
         THEN LET key == SubSeq(segment, 1, Len(segment) - 3)
                  index == IntOf(segment[Len(segment) - 1])
              IN IF current.type # "dict" THEN None
                 ELSE LET item == DictGet(current, key)
                      IN IF item.type = "list" /\ index < Len(item.items)
                         THEN ResolveSegments(item.items[index + 1], segments, k + 1)
                         ELSE None
         ELSE IF current.type = "dict"
         THEN ResolveSegments(DictGet(current, segment), segments, k + 1)
         ELSE None

_resolve_path(ctx, path) == ResolveSegments(ctx, Split(Strip(path)), 1)

\* repr() and str() of a value, as tokens.
RECURSIVE Repr(_)
RECURSIVE ReprItems(_, _)
RECURSIVE ReprPairs(_, _)
Repr(v) ==
    CASE v.type = "NoneType" -> <<"None">>
      [] v.type = "int" -> <<NumeralOf(v.n)>>
      [] v.type = "str" -> <<"'">> \o v.s \o <<"'">>
      [] v.type = "list" -> <<"[">> \o ReprItems(v.items, 1) \o <<"]">>
      [] v.type = "dict" -> <<"{">> \o ReprPairs(v.pairs, 1) \o <<"}">>
ReprItems(items, k) ==
    IF k > Len(items) THEN <<>>
    ELSE (IF k > 1 THEN <<",", " ">> ELSE <<>>) \o Repr(items[k])
         \o ReprItems(items, k + 1)
ReprPairs(pairs, k) ==
    IF k > Len(pairs) THEN <<>>
    ELSE (IF k > 1 THEN <<",", " ">> ELSE <<>>)
         \o <<"'">> \o pairs[k].k \o <<"'", ":", " ">> \o Repr(pairs[k].v)
         \o ReprPairs(pairs, k + 1)
Str(v) == IF v.type = "str" THEN v.s ELSE Repr(v)

\* TEMPLATE_PATTERN.fullmatch(value): \{\{(.+?)\}\}
TEMPLATE_PATTERN_fullmatch(s) ==
    /\ Len(s) >= 3
    /\ s[1] = "{{"
    /\ s[Len(s)] = "}}"

\* TEMPLATE_PATTERN.sub(replacer, template) from token i on: the leftmost
\* "{{", then the nearest "}}" with something in between.
RECURSIVE Sub(_, _, _)
Sub(s, i, ctx) ==
    IF i > Len(s) THEN <<>>
    ELSE IF s[i] = "{{" /\ \E j \in (i + 2)..Len(s) : s[j] = "}}"
    THEN LET j == CHOOSE j \in (i + 2)..Len(s) :
                     s[j] = "}}" /\ \A m \in (i + 2)..(j - 1) : s[m] # "}}"
             value == _resolve_path(ctx, SubSeq(s, i + 1, j - 1))
         IN (IF value = None THEN SubSeq(s, i, j) ELSE Str(value))
            \o Sub(s, j + 1, ctx)
    ELSE <<s[i]>> \o Sub(s, i + 1, ctx)

resolve_template(template, ctx) == Sub(template, 1, ctx)

RECURSIVE resolve_value(_, _)
resolve_value(value, ctx) ==
    CASE value.type = "str" ->
            IF TEMPLATE_PATTERN_fullmatch(value.s)
            THEN LET resolved == _resolve_path(ctx, SubSeq(value.s, 2, Len(value.s) - 1))
                 IN IF resolved # None THEN resolved ELSE value
            ELSE PyStr(resolve_template(value.s, ctx))
      [] value.type = "dict" ->
            PyDict([i \in 1..Len(value.pairs) |->
                       [k |-> value.pairs[i].k,
                        v |-> resolve_value(value.pairs[i].v, ctx)]])
      [] value.type = "list" ->
            PyList([i \in 1..Len(value.items) |-> resolve_value(value.items[i], ctx)])
      [] OTHER -> value

\* ------------------------------------------------------------------------
\* Specification SpecResolve: resolve_value applied to templates and
\* contexts of bounded size
\* ------------------------------------------------------------------------
MaxListLen == 2

Leaves == {None, PyInt(42), PyStr(<<"x">>)}
InnerDicts == {PyDict(<<>>)} \cup {PyDict(<<[k |-> <<"b">>, v |-> x]>>) : x \in Leaves}
Lists == {PyList(items) : items \in SeqsUpTo(Leaves \cup InnerDicts, MaxListLen)}
OuterDicts ==
    {PyDict(<<[k |-> <<"b">>, v |-> x]>>) : x \in Leaves \cup {PyList(<<PyInt(42)>>)}}
ResolveContexts ==
    {PyDict(<<>>)}
        \cup {PyDict(<<[k |-> <<"a">>, v |-> x]>>) :
                 x \in Leaves \cup Lists \cup InnerDicts \cup OuterDicts}

\* Paths, without the braces.
ResolvePaths ==
    { <<"a">>, <<" ", "a", " ">>, <<"missing">>,
      <<"a", ".", "b">>, <<"a", ".", "b", ".", "c">>,
      <<"a", "[", "0", "]">>, <<"a", "[", "1", "]">>, <<"a", "[", "42", "]">>,
      <<"a", "[", "0", "]", ".", "b">>,
      <<"a", ".", "b", "[", "0", "]">>,
      <<"a", "[", "0", "]", "[", "0", "]">> }

Template(path) == <<"{{">> \o path \o <<"}}">>

ResolveValues ==
    {PyStr(Template(p)) : p \in ResolvePaths}
        \cup {PyStr(<<"x", "=">> \o Template(p)) : p \in {<<"a">>, <<"missing">>}}
        \cup {PyStr(Template(p) \o <<"=", "x">>) : p \in {<<"a">>, <<"missing">>}}
        \cup {PyStr(Template(<<"a">>) \o <<" ">> \o Template(<<"a", ".", "b">>)),
              PyStr(<<"x">>), PyInt(42), None,
              PyList(<<PyStr(Template(<<"a">>)), PyInt(1)>>),
              PyDict(<<[k |-> <<"q">>, v |-> PyStr(Template(<<"a", ".", "b">>))]>>)}

InitResolve ==
    /\ nodes = <<1>>
    /\ edges = <<>>
    /\ node_type = [n \in {1} |-> "action"]
    /\ node_label = [n \in {1} |-> NoLabel]
    /\ execution = NewExecution({})
    /\ faults = {}
    /\ InitRun
    /\ node_model = [n \in {1} |-> "llama"]
    /\ router = <<"ollama">>
    /\ redis_down = FALSE
    /\ agent_settings = NoSettings
    /\ resolve_in \in [kind : {"call"}, value : ResolveValues, context : ResolveContexts]
    /\ resolve_out = NoResolve

\* One call of resolve_value.
ResolveApply ==
    /\ resolve_in.kind = "call"
    /\ resolve_out = NoResolve
    /\ resolve_out' = [kind |-> "returned",
                       value |-> resolve_value(resolve_in.value, resolve_in.context)]
    /\ UNCHANGED <<graphVars, configVars, agentVars, resolve_in, add_step_calls, runLocals, execution, steps,
                   step_logs, events, published, pc, handler_calls, chat_call,
                   retry_log, result, retries, faults>>

NextResolve == ResolveApply

SpecResolve == InitResolve /\ [][NextResolve]_vars

\* The string is one {{path}} expression and nothing else.
SingleTemplate(value) ==
    /\ value.type = "str"
    /\ TEMPLATE_PATTERN_fullmatch(value.s)
    /\ \A i \in 2..(Len(value.s) - 1) : value.s[i] \notin {"{{", "}}"}

\* C20: resolve_value of a string that is exactly one {{path}} expression
\* returns the value the path resolves to in the context, type unchanged,
\* and null when the path has a missing key, a non-container intermediate or
\* an out-of-range index.
C20_SingleTemplateReturnsResolved ==
    (resolve_out # NoResolve /\ SingleTemplate(resolve_in.value)) =>
        resolve_out.value =
            _resolve_path(resolve_in.context,
                          SubSeq(resolve_in.value.s, 2, Len(resolve_in.value.s) - 1))

\* The string holds at least one {{path}} expression and is not a lone one;
\* every "{{" in it opens an expression and every "}}" closes one.
TemplateWithText(value) ==
    /\ value.type = "str"
    /\ ~SingleTemplate(value)
    /\ \E i \in 1..Len(value.s) : value.s[i] = "{{"
    /\ \A i \in 1..Len(value.s) :
          /\ value.s[i] = "{{" =>
                \E j \in (i + 2)..Len(value.s) :
                    /\ value.s[j] = "}}"
                    /\ \A m \in (i + 1)..(j - 1) : value.s[m] \notin {"{{", "}}"}
          /\ value.s[i] = "}}" =>
                \E j \in 1..(i - 2) :
                    /\ value.s[j] = "{{"
                    /\ \A m \in (j + 1)..(i - 1) : value.s[m] \notin {"{{", "}}"}

\* The text s with each expression replaced by str of its value, or kept
\* when the value is null.
RECURSIVE Interpolated(_, _)
Interpolated(s, ctx) ==
    IF s = <<>> THEN <<>>
    ELSE IF Head(s) # "{{" THEN <<Head(s)>> \o Interpolated(Tail(s), ctx)
    ELSE LET close == CHOOSE j \in 2..Len(s) :
                          s[j] = "}}" /\ \A m \in 2..(j - 1) : s[m] # "}}"
             value == _resolve_path(ctx, SubSeq(s, 2, close - 1))
         IN (IF value = None THEN SubSeq(s, 1, close) ELSE Str(value))
            \o Interpolated(SubSeq(s, close + 1, Len(s)), ctx)

\* C21: resolve_value of a string holding template expressions together
\* with other text returns the string with every expression of non-null
\* value replaced by str(value) and every expression of null value left as
\* its literal text, whatever the first and last characters of the string.
C21_Interpolation ==
    (resolve_out # NoResolve /\ TemplateWithText(resolve_in.value)) =>
        resolve_out.value = PyStr(Interpolated(resolve_in.value.s, resolve_in.context))

\* The step.skipped events of node n.
SkippedEvents(n) == Count(events, Event("step.skipped", n))

\* What holds of the nodes skipped so far in this run.
SkippedNodesState ==
    \A n \in Range(nodes) :
        /\ n \in skipped_nodes => (~Executed(n) /\ SkippedEvents(n) = 1)
        /\ SkippedEvents(n) >= 1 => n \in skipped_nodes

\* The step of the run that skips a node.
SkipStep ==
    \A n \in skipped_nodes' \ skipped_nodes :
        /\ pc = "loop" /\ n = CurrentNode
        /\ skipped_nodes' = skipped_nodes \cup {n}
        /\ events' = Append(events, Event("step.skipped", n))
        /\ steps' = steps
        /\ context' = context
        /\ handler_calls' = handler_calls
        /\ chat_call' = chat_call
        /\ execution' = execution
        /\ pc' = "loop"
        /\ sorted_nodes' = sorted_nodes
        /\ idx' = idx + 1

\* C22: when a node is skipped its handler is not invoked, no step record
\* is created for it, the context is left unchanged, one step.skipped event
\* is emitted for it, the skip is recorded for its outgoing edges, and the
\* run goes on with the next node of the order.
C22_SkipFrame == []SkippedNodesState /\ [][SkipStep]_vars

\* A node was skipped and a node after it in the order was executed.
C22_Witness ==
    /\ sorted_nodes.ok
    /\ \E i, j \in 1..Len(sorted_nodes.order) :
          /\ i < j
          /\ sorted_nodes.order[i] \in skipped_nodes
          /\ Executed(sorted_nodes.order[j])

\* ------------------------------------------------------------------------
\* Specification SpecTracker: sequences of add_step calls on one CostTracker
\* ------------------------------------------------------------------------
MaxTrackerSteps == 3
TrackerModels == {"gpt", "gemini", "unknown"}
TrackerTokens == {0, 11, 1000}
TrackerCosts == {0, 140, 250000}

InitTracker ==
    /\ nodes = <<1>>
    /\ edges = <<>>
    /\ node_type = [n \in {1} |-> "ai"]
    /\ node_label = [n \in {1} |-> NoLabel]
    /\ execution = NewExecution({})
    /\ faults = {}
    /\ InitRun
    /\ InitConfig

\* One call of CostTracker.add_step.
AddStepApply ==
    /\ Len(add_step_calls) < MaxTrackerSteps
    /\ \E model \in TrackerModels, tokens_used \in TrackerTokens, cost \in TrackerCosts :
          /\ cost_tracker' = add_step(cost_tracker, model, tokens_used, cost)
          /\ add_step_calls' = Append(add_step_calls, StepCost(model, tokens_used, cost))
    /\ UNCHANGED <<graphVars, configVars, agentVars, resolverVars, sorted_nodes, idx, context,
                   skipped_nodes, retry_policy, attempt, pending, run_base, execution,
                   steps, step_logs, events, published, pc, handler_calls, chat_call,
                   retry_log, result, retries, faults>>

NextTracker == AddStepApply

SpecTracker == InitTracker /\ [][NextTracker]_vars

RECURSIVE SeqSum(_)
SeqSum(s) == IF s = <<>> THEN 0 ELSE Head(s) + SeqSum(Tail(s))

RECURSIVE FnSum(_, _)
FnSum(f, S) ==
    IF S = {} THEN 0
    ELSE LET x == CHOOSE x \in S : TRUE IN f[x] + FnSum(f, S \ {x})

\* C23: after any sequence of N add_step calls, total_tokens is the sum of
\* the N token counts, total_cost the sum of the N costs, the record list
\* holds the N calls in call order, and the per-model token sums, cost sums
\* and step counts of summary() add up to total_tokens, total_cost and N.
C23_TrackerTotals ==
    LET N == Len(add_step_calls)
        s == summary(cost_tracker)
        models == DOMAIN s.by_model
    IN /\ cost_tracker.total_tokens =
              SeqSum([k \in 1..N |-> add_step_calls[k].tokens_used])
       /\ cost_tracker.total_cost = SeqSum([k \in 1..N |-> add_step_calls[k].cost])
       /\ cost_tracker.steps = add_step_calls
       /\ s.step_count = N
       /\ s.total_tokens = cost_tracker.total_tokens
       /\ s.total_cost = cost_tracker.total_cost
       /\ models = {add_step_calls[k].model : k \in 1..N}
       /\ FnSum([m \in models |-> s.by_model[m].tokens], models) = s.total_tokens
       /\ FnSum([m \in models |-> s.by_model[m].cost], models) = s.total_cost
       /\ FnSum([m \in models |-> s.by_model[m].steps], models) = N
       /\ \A m \in models :
             s.by_model[m].steps =
                 Cardinality({k \in 1..N : add_step_calls[k].model = m})

\* Three calls for two models, one of them twice, with a cost that is not
\* a multiple of 10^-6.
C23_Witness ==
    /\ Len(add_step_calls) = 3
    /\ cost_tracker.total_cost = 280
    /\ cost_tracker.total_tokens = 1022
    /\ DOMAIN summary(cost_tracker).by_model = {"gemini", "gpt"}
    /\ summary(cost_tracker).by_model["gemini"].steps = 2

\* The labelled edges from executed logic nodes into the node the loop is
\* about to decide on.
DecidingEdges ==
    IF pc = "loop" /\ sorted_nodes.ok /\ idx <= Len(sorted_nodes.order)
    THEN {k \in 1..Len(edges) :
             /\ edges[k].target = CurrentNode
             /\ edges[k].label # NoLabel
             /\ edges[k].source \in Range(nodes)
             /\ node_type[edges[k].source] = "logic"
             /\ Executed(edges[k].source)}
    ELSE {}

\* C24: the branch value used to decide whether a labelled edge leaving
\* logic node L is active is the branch L's own handler returned in this
\* run, also when a node executed after L carries L's label.
C24_BranchIsOwn ==
    \A k \in DecidingEdges :
        LET entry == context[NodeKey(edges[k].source)]
        IN /\ entry.kind = "node"
           /\ entry.output.branch = OwnBranch(edges[k].source)

\* ------------------------------------------------------------------------
\* Specification SpecConfig: the templates of a node's config on their way
\* from execute_node to the handler's request
\* ------------------------------------------------------------------------
SecretPath == <<"integrations", ".", "slack", ".", "bot_token">>
PayloadPath == <<"trigger", ".", "msg">>
Secret == PyStr(<<"xoxb-secret">>)

\* Values of trigger_data["msg"], chosen by whoever triggers the run.
Payloads ==
    {PyStr(<<"hello">>), PyInt(42), PyList(<<PyStr(<<"hello">>)>>),
     PyStr(Template(SecretPath)),
     PyStr(<<"token", "=">> \o Template(SecretPath)),
     PyStr(Template(PayloadPath)),
     PyStr(Template(<<"missing">>))}

\* context["integrations"]: the organisation's credentials.
Integrations ==
    {PyDict(<<>>),
     PyDict(<<[k |-> <<"slack">>, v |-> PyDict(<<[k |-> <<"bot_token">>, v |-> Secret]>>)]>>)}

\* The run context of lines 110-126 of the orchestrator.
RunContext(payload, integrations) ==
    PyDict(<<[k |-> <<"trigger">>, v |-> PyDict(<<[k |-> <<"msg">>, v |-> payload]>>)],
             [k |-> <<"execution_id">>, v |-> PyStr(<<"e1">>)],
             [k |-> <<"integrations">>, v |-> integrations]>>)

\* The config field the handler sends: "url" of an http_request action,
\* "prompt" of an ai node.
HandlerField(ntype) == IF ntype = "ai" THEN <<"prompt">> ELSE <<"url">>

\* Values of that field, chosen by the agent's author.
FieldValues ==
    {PyStr(<<"hello">>),
     PyStr(Template(PayloadPath)),
     PyStr(<<"say", " ">> \o Template(PayloadPath)),
     PyStr(Template(PayloadPath) \o <<" ", "end">>),
     PyStr(Template(SecretPath)),
     PyStr(Template(<<"missing">>))}

InitConfigResolve ==
    /\ nodes = <<1>>
    /\ edges = <<>>
    /\ node_type \in [{1} -> {"ai", "action"}]
    /\ node_label = [n \in {1} |-> NoLabel]
    /\ execution = NewExecution({})
    /\ faults = {}
    /\ InitRun
    /\ node_model = [n \in {1} |-> "llama"]
    /\ router = <<"ollama">>
    /\ redis_down = FALSE
    /\ agent_settings = NoSettings
    /\ \E v \in FieldValues, p \in Payloads, i \in Integrations :
          resolve_in = [kind |-> "call",
                        value |-> PyDict(<<[k |-> HandlerField(node_type[1]), v |-> v]>>),
                        context |-> RunContext(p, i)]
    /\ resolve_out = NoResolve

\* execute_node line 152: resolved_config = resolve_value(node_config, context)
ExecuteNodeResolves ==
    /\ resolve_in.kind = "call"
    /\ resolve_out = NoResolve
    /\ resolve_out' = [kind |-> "resolved_config",
                       value |-> resolve_value(resolve_in.value, resolve_in.context)]
    /\ UNCHANGED <<graphVars, configVars, agentVars, resolve_in, add_step_calls, runLocals,
                   execution, steps, step_logs, events, published, pc, handler_calls,
                   chat_call, retry_log, result, retries, faults>>

\* The handler, given resolved_config: _http_request line 38 and
\* _build_messages line 44 resolve the field again before sending it.
HandlerResolves ==
    /\ resolve_out.kind = "resolved_config"
    /\ resolve_out' = [kind |-> "sent",
                       value |-> resolve_value(DictGet(resolve_out.value,
                                                       HandlerField(node_type[1])),
                                               resolve_in.context)]
    /\ UNCHANGED <<graphVars, configVars, agentVars, resolve_in, add_step_calls, runLocals,
                   execution, steps, step_logs, events, published, pc, handler_calls,
                   chat_call, retry_log, result, retries, faults>>

NextConfigResolve ==
    \/ ExecuteNodeResolves
    \/ HandlerResolves

SpecConfig == InitConfigResolve /\ [][NextConfigResolve]_vars

\* Whether the credential occurs in a string value.
HoldsSecret(v) ==
    v.type = "str" /\ \E i \in 1..Len(v.s) : v.s[i] = Head(Secret.s)

TerminalStatuses == {"completed", "failed", "cancelled"}

\* C26: once the execution is completed, failed or cancelled, no operation
\* changes its status again: not a run in progress reaching its end, not a
\* worker retry, not cancel_execution and not approve_step.
C26_TerminalStatusFinal ==
    [][execution.status \in TerminalStatuses =>
          execution'.status = execution.status]_vars

\* The step rows of node n, over all runs of the execution.
StepsOf(n) == {k \in 1..Len(steps) : steps[k].node_id = n}

\* C27: for one execution each node gets at most one step record, and so
\* its handler is run by at most one step, whatever the worker does after
\* the run fails: a completed node is never executed a second time.
C27_OneStepPerNode ==
    \A n \in Range(nodes) : Cardinality(StepsOf(n)) <= 1

\* approve_step has acted on the execution.
Approved == \E k \in 1..Len(steps) : steps[k].status = "approved"

\* The step that takes the execution from waiting_approval to running.
ApproveFrame ==
    (execution.status = "waiting_approval" /\ execution'.status = "running") =>
        /\ steps' = [k \in 1..Len(steps) |->
                        IF steps[k].status = "waiting_approval"
                        THEN [steps[k] EXCEPT !.status = "approved"]
                        ELSE steps[k]]
        /\ execution' = [execution EXCEPT !.status = "running"]
        /\ UNCHANGED <<runLocals, step_logs, events, pc, handler_calls, chat_call,
                       retry_log, result, retries>>

\* A step becomes approved only on an execution that is waiting_approval.
ApproveGuard ==
    \A k \in 1..Len(steps) :
        (steps[k].status # "approved" /\ steps'[k].status = "approved") =>
            (execution.status = "waiting_approval" /\ execution'.status = "running")

\* After the approval nothing runs: no step row, no handler call, and the
\* status leaves running only through cancel_execution.
NothingResumes ==
    Approved =>
        /\ Len(steps') = Len(steps)
        /\ handler_calls' = handler_calls
        /\ idx' = idx
        /\ execution'.status \in {"running", "cancelled"}

\* C28: approve_step on a waiting_approval execution sets the execution to
\* running and the waiting step to approved and does nothing else: no node
\* is dispatched and no step created, so no node after the paused node is
\* ever executed and the execution never reaches completed or failed; on any
\* other status approve_step changes nothing.
C28_ApproveDoesNotResume ==
    /\ [](Approved => execution.status \in {"running", "cancelled"})
    /\ [][ApproveFrame /\ ApproveGuard /\ NothingResumes]_vars

\* The paused step has been approved, the task is over, the execution is
\* running and a node after the paused one has no step.
C28_Witness ==
    /\ Approved
    /\ pc = "done"
    /\ execution.status = "running"
    /\ \E n \in Range(nodes) : StepsOf(n) = {}

\* ------------------------------------------------------------------------
\* Specification SpecTrigger: one run of an execution created for an agent
\* with settings, by the API, a webhook or the scheduler
\* ------------------------------------------------------------------------
Triggers == {"api", "test", "webhook", "schedule"}

\* Execution(agent_id=..., triggered_by=..., trigger_data=...,
\* status="pending") of trigger_execution, receive_webhook and
\* _dispatch_execution: none passes metadata_, the column default is {}.
ExecutionFor(settings, triggered_by) ==
    [NewExecution({}) EXCEPT !.triggered_by = triggered_by]

InitTrigger ==
    /\ nodes = <<1>>
    /\ edges = <<>>
    /\ node_type \in [{1} -> ServiceNodeTypes]
    /\ node_label = [n \in {1} |-> NoLabel]
    /\ agent_settings \in [max_retries : {{}} \cup {{m} : m \in 0..MaxPolicyRetries},
                           concurrency_limit : {{}}]
    /\ \E t \in Triggers : execution = ExecutionFor(agent_settings, t)
    /\ faults = RunFaults
    /\ InitRun
    /\ node_model = [n \in {1} |-> "llama"]
    /\ router = <<"ollama">>
    /\ redis_down = FALSE
    /\ resolve_in = NoResolve
    /\ resolve_out = NoResolve

SpecTrigger == InitTrigger /\ [][RunNext]_vars

\* C29: the run's RetryPolicy is derived from the settings of the agent
\* being executed: max_retries is the value of the agent's settings, and
\* the default 3 only when the agent configures none.
C29_PolicyFromAgentSettings ==
    sorted_nodes # NotSorted =>
        retry_policy.max_retries = MaxRetriesSetting(agent_settings.max_retries)

\* ------------------------------------------------------------------------
\* Specification SpecConcurrency: the executions of one agent under
\* concurrent triggers, runs and approvals
\* ------------------------------------------------------------------------
MaxExecutions == 3
MaxRequests == 2
DefaultConcurrencyLimit == 5

\* agent.settings.get("concurrency_limit", 5)
ConcurrencyLimit ==
    IF agent_settings.concurrency_limit = {} THEN DefaultConcurrencyLimit
    ELSE CHOOSE c \in agent_settings.concurrency_limit : TRUE

\* select count(Execution.id) where status in ("pending", "running")
ActiveCount ==
    Cardinality({e \in 1..Len(executions) : executions[e].status \in {"pending", "running"}})

ExecutionRow(triggered_by) == [status |-> "pending", triggered_by |-> triggered_by]

RemoveAt(s, i) == SubSeq(s, 1, i - 1) \o SubSeq(s, i + 1, Len(s))

otherVars == <<graphVars, configVars, resolverVars, add_step_calls, runLocals, execution,
               steps, step_logs, events, published, pc, handler_calls, chat_call,
               retry_log, result, retries, faults, agent_settings>>

\* trigger_execution, lines 65-74: a request reads the count of pending
\* and running executions.
TriggerCounts ==
    /\ Len(requests) < MaxRequests
    /\ requests' = Append(requests, [running_count |-> ActiveCount])
    /\ UNCHANGED <<otherVars, executions>>

\* trigger_execution, lines 76-94: the request is refused with 429, or
\* inserts its pending execution.
TriggerInserts ==
    /\ \E r \in 1..Len(requests) :
          /\ IF requests[r].running_count >= ConcurrencyLimit
             THEN executions' = executions
             ELSE /\ Len(executions) < MaxExecutions
                  /\ executions' = Append(executions, ExecutionRow("api"))
          /\ requests' = RemoveAt(requests, r)
    /\ UNCHANGED otherVars

\* receive_webhook, lines 69-78.
receive_webhook ==
    /\ Len(executions) < MaxExecutions
    /\ executions' = Append(executions, ExecutionRow("webhook"))
    /\ UNCHANGED <<otherVars, requests>>

\* _dispatch_execution, lines 165-174.
_dispatch_execution ==
    /\ Len(executions) < MaxExecutions
    /\ executions' = Append(executions, ExecutionRow("schedule"))
    /\ UNCHANGED <<otherVars, requests>>

\* Orchestrator.run, line 88, for any of the agent's executions.
RunBegins ==
    /\ \E e \in 1..Len(executions) :
          /\ executions[e].status = "pending"
          /\ executions' = [executions EXCEPT ![e].status = "running"]
    /\ UNCHANGED <<otherVars, requests>>

\* Orchestrator.run, lines 187-225: the run ends or pauses.
RunEnds ==
    /\ \E e \in 1..Len(executions) :
          /\ executions[e].status = "running"
          /\ \E st \in {"completed", "failed", "waiting_approval"} :
                executions' = [executions EXCEPT ![e].status = st]
    /\ UNCHANGED <<otherVars, requests>>

\* approve_step, lines 277-299, for any of the agent's executions.
ApproveAny ==
    /\ \E e \in 1..Len(executions) :
          /\ executions[e].status = "waiting_approval"
          /\ executions' = [executions EXCEPT ![e].status = "running"]
    /\ UNCHANGED <<otherVars, requests>>

InitConcurrency ==
    /\ nodes = <<1>>
    /\ edges = <<>>
    /\ node_type = [n \in {1} |-> "human"]
    /\ node_label = [n \in {1} |-> NoLabel]
    /\ execution = NewExecution({})
    /\ faults = {}
    /\ InitRun
    /\ node_model = [n \in {1} |-> "llama"]
    /\ router = <<"ollama">>
    /\ redis_down = FALSE
    /\ agent_settings \in [max_retries : {{}}, concurrency_limit : {{}, {1}, {2}}]
    /\ resolve_in = NoResolve
    /\ resolve_out = NoResolve

NextConcurrency ==
    \/ TriggerCounts
    \/ TriggerInserts
    \/ receive_webhook
    \/ _dispatch_execution
    \/ RunBegins
    \/ RunEnds
    \/ ApproveAny

SpecConcurrency == InitConcurrency /\ [][NextConcurrency]_vars

\* C30: the number of the agent's executions that are pending or running
\* never exceeds the agent's concurrency_limit (default 5), under any
\* interleaving of trigger requests, webhooks, scheduled dispatches and
\* approvals.
C30_ConcurrencyLimit == ActiveCount <= ConcurrencyLimit
====
